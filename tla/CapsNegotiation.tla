--------------------------- MODULE CapsNegotiation ---------------------------
(***************************************************************************)
(* updateAudioCaps(rate, channels) and updateVideoCaps(width, height) of  *)
(* the generic player, run as UpdateFormat tasks on the worker thread.    *)
(* Caps objects are reference counted: gst_app_src_get_caps returns a new *)
(* reference, gst_caps_copy a new object with one reference,              *)
(* gst_app_src_set_caps makes the appsrc hold the new caps and drop the   *)
(* old ones, gst_caps_unref drops one reference.                          *)
(***************************************************************************)
EXTENDS Integers, FiniteSets

CONSTANTS Sources,      \* MediaSourceType values: AUDIO, VIDEO
          Fields,       \* Fields[s]: the caps fields the update of s may set
          Values,       \* int32 values a caller may pass (small sample)
          MaxUpdates    \* model bound on the updates performed

ASSUME /\ \A s \in Sources : Fields[s] # {}
       /\ Values \subseteq Int
       /\ MaxUpdates \in Nat \ {0}

CapsIds == 0..MaxUpdates
AllFields == UNION {Fields[s] : s \in Sources}

VARIABLES
  streamInfo,   \* sources whose appsrc is registered
  appsrcCaps,   \* appsrcCaps[s]: the caps object the appsrc of s holds
  capsFields,   \* capsFields[c][f]: field f of caps object c
  refs,         \* refs[c]: reference count of caps object c
  allocated     \* caps objects created so far (ids 0..allocated-1)

vars == <<streamInfo, appsrcCaps, capsFields, refs, allocated>>

\* Each registered appsrc starts with caps of its own, with valid fields,
\* held by the appsrc alone.
Init ==
  /\ streamInfo = {}
  /\ appsrcCaps \in [Sources -> CapsIds]
  /\ \A s, r \in Sources : s # r => appsrcCaps[s] # appsrcCaps[r]
  /\ \A s \in Sources : appsrcCaps[s] < Cardinality(Sources)
  /\ allocated = Cardinality(Sources)
  /\ capsFields = [c \in CapsIds |-> [f \in AllFields |-> 1]]
  /\ refs = [c \in CapsIds |-> IF c < Cardinality(Sources) THEN 1 ELSE 0]

\* The parameter is applied only when strictly positive.
Valid(v) == v > 0

\* gst_caps_set_simple on the working copy for each valid parameter.
SetValidFields(cur, p) ==
  [f \in AllFields |-> IF f \in DOMAIN p /\ Valid(p[f]) THEN p[f] ELSE cur[f]]

\* Variant: the working copy released only when it has been applied.
UnrefCopyIfApplied(r, cur, copy, applied) ==
  [r EXCEPT ![cur] = @ - 1, ![copy] = IF applied THEN @ - 1 ELSE @]

\* Variant: the old caps unreferenced again after set_caps dropped them.
UnrefOldCapsAgain(r, cur, copy, applied) ==
  [r EXCEPT ![cur] = IF applied THEN @ - 2 ELSE @ - 1, ![copy] = @ - 1]

\* Both the fetched caps and the working copy are unreferenced, whether or
\* not the copy was applied.
UnrefBoth(r, cur, copy, applied) == [r EXCEPT ![cur] = @ - 1, ![copy] = @ - 1]

\* update<Source>Caps(p): no-op without a registered appsrc; otherwise
\* get_caps (+1 on the current caps), copy (a new object, one reference),
\* set the valid fields, set_caps if any was valid (the appsrc takes the
\* copy and drops the old caps), and unref the fetched caps and the copy.
UpdateCaps(s, p) ==
  /\ s \in streamInfo
  /\ allocated <= MaxUpdates
  /\ LET cur == appsrcCaps[s]
         copy == allocated
         applied == \E f \in DOMAIN p : Valid(p[f])
         fetched == [refs EXCEPT ![cur] = @ + 1, ![copy] = 1]
         set == IF applied
                THEN [fetched EXCEPT ![copy] = @ + 1, ![cur] = @ - 1]
                ELSE fetched
     IN /\ capsFields' = [capsFields EXCEPT ![copy] = SetValidFields(capsFields[cur], p)]
        /\ appsrcCaps' = IF applied THEN [appsrcCaps EXCEPT ![s] = copy] ELSE appsrcCaps
        /\ refs' = UnrefBoth(set, cur, copy, applied)
        /\ allocated' = allocated + 1
  /\ UNCHANGED streamInfo

\* update<Source>Caps with no appsrc registered: nothing is touched.
UpdateCapsNoSource(s, p) ==
  /\ s \notin streamInfo
  /\ UNCHANGED vars

\* The appsrc of a source is registered (source setup).
RegisterSource(s) ==
  /\ s \notin streamInfo
  /\ streamInfo' = streamInfo \cup {s}
  /\ UNCHANGED <<appsrcCaps, capsFields, refs, allocated>>

\* Every update has been performed: nothing more happens.
Finished == allocated > MaxUpdates /\ streamInfo = Sources /\ UNCHANGED vars

Next ==
  \/ \E s \in Sources : RegisterSource(s)
  \/ \E s \in Sources : \E p \in [Fields[s] -> Values] :
       UpdateCaps(s, p) \/ UpdateCapsNoSource(s, p)
  \/ Finished

Spec == Init /\ [][Next]_vars

-----------------------------------------------------------------------------
\* Every variable keeps its type; in particular no reference count ever
\* drops below zero (no caps object is unreferenced more often than it
\* was referenced by get_caps, copy and set_caps).
TypeOK ==
  /\ streamInfo \subseteq Sources
  /\ appsrcCaps \in [Sources -> CapsIds]
  /\ capsFields \in [CapsIds -> [AllFields -> Int]]
  /\ refs \in [CapsIds -> Nat]
  /\ allocated \in 0..MaxUpdates + 1

\* Between updates, every caps object is referenced exactly by the appsrcs
\* that hold it: the fetched caps and the working copy are each released
\* exactly once on every path, applied or not, so none leaks and none is
\* freed while an appsrc still holds it.
CapsRefsBalanced ==
  \A c \in 0..allocated - 1 :
    refs[c] = Cardinality({s \in Sources : appsrcCaps[s] = c})

=============================================================================
