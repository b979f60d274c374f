--------------------------- MODULE ProtectionBuffer ---------------------------
(***************************************************************************)
(* GstGenericPlayerPrivate::createBuffer(segment): the data buffer is      *)
(* allocated and filled; for an encrypted segment the key-id buffer (an    *)
(* empty buffer plus selectKeyId for the Netflix key system), the IV       *)
(* buffer and the subsample map (one big-endian uint16 clear count and     *)
(* uint32 encrypted count per subsample, in a g_malloc'ed block wrapped    *)
(* as a buffer) are built and handed to addProtectionMetadata.  When that  *)
(* returns a meta, the meta owns the three sub-buffers and frees them with *)
(* the data buffer; when it returns null, createBuffer unrefs all three.   *)
(* The buffer's timestamp and duration are set on every path.             *)
(*                                                                         *)
(* A created buffer later goes back to GStreamer (pushed into an appsrc,   *)
(* or unreferenced by the player), which frees it and its meta.            *)
(***************************************************************************)
EXTENDS Naturals, Sequences

CONSTANTS Segments,    \* the media segments offered (a set of records)
          MaxBuffers   \* createBuffer calls in a behaviour (bound)

ASSUME MaxBuffers \in Nat \ {0}

Buffers == 1..MaxBuffers
SubKinds == {"keyId", "iv", "subsamples"}
SubBuffers == Buffers \X SubKinds

\* Big-endian writes of gst_byte_writer_put_uint16_be / _uint32_be: the
\* count, a size_t in the segment, is narrowed to the writer's width.  (TLC
\* integers stay below 2^31, so every count fits the uint32 field.)
UInt16BE(x) == << (x % 2^16) \div 2^8, x % 2^8 >>
UInt32BE(x) == << (x \div 2^24) % 2^8, (x \div 2^16) % 2^8,
                  (x \div 2^8) % 2^8, x % 2^8 >>

\* The subsample map: for each subsample, its clear then encrypted count.
RECURSIVE SubsampleMap(_)
SubsampleMap(subs) ==
  IF subs = <<>> THEN <<>>
  ELSE UInt16BE(Head(subs)[1]) \o UInt32BE(Head(subs)[2]) \o SubsampleMap(Tail(subs))

NoBuffer == [state |-> "NONE", seg |-> CHOOSE s \in Segments : TRUE,
             meta |-> FALSE, timed |-> FALSE, map |-> <<>>]

VARIABLES
  buf,       \* buf[b]: state, segment, meta attached, timestamps set, map
  subRefs,   \* subRefs[<<b, k>>]: references held on sub-buffer k of b
  selected,  \* history: buffers for which selectKeyId was called
  created    \* createBuffer calls made

vars == <<buf, subRefs, selected, created>>

Init ==
  /\ buf = [b \in Buffers |-> NoBuffer]
  /\ subRefs = [x \in SubBuffers |-> 0]
  /\ selected = {}
  /\ created = 0

\* Variant: the failure branch releases the key-id and IV buffers only.
UnrefSubBuffersNoMap(refs, b) ==
  [x \in SubBuffers |->
     IF x \in {<<b, "keyId">>, <<b, "iv">>} THEN refs[x] - 1 ELSE refs[x]]

\* gst_buffer_unref of the key-id, IV and subsample buffers of b.
UnrefSubBuffers(refs, b) ==
  [x \in SubBuffers |-> IF x[1] = b THEN refs[x] - 1 ELSE refs[x]]

\* GST_BUFFER_TIMESTAMP / GST_BUFFER_DURATION are set on every path.
Timed(seg, meta) == TRUE

\* createBuffer(segment), as one call on the calling thread.
CreateBuffer(seg) ==
  /\ created < MaxBuffers
  /\ LET b == created + 1
         made == [x \in SubBuffers |-> IF x[1] = b THEN 1 ELSE subRefs[x]]
     IN
     /\ created' = b
     /\ selected' = IF seg.encrypted /\ seg.netflix THEN selected \cup {b} ELSE selected
     /\ \/ /\ ~seg.encrypted
           /\ buf' = [buf EXCEPT ![b] = [state |-> "LIVE", seg |-> seg, meta |-> FALSE,
                                         timed |-> Timed(seg, FALSE), map |-> <<>>]]
           /\ UNCHANGED subRefs
        \/ /\ seg.encrypted
           /\ \E meta \in BOOLEAN :   \* addProtectionMetadata returns a meta or null
                /\ buf' = [buf EXCEPT ![b] =
                             [state |-> "LIVE", seg |-> seg, meta |-> meta,
                              timed |-> Timed(seg, meta), map |-> SubsampleMap(seg.subs)]]
                /\ subRefs' = IF meta THEN made ELSE UnrefSubBuffers(made, b)

\* Variant: the sub-buffers are unreffed with the buffer even when no meta
\* took them, so a failed addProtectionMetadata frees them twice.
ReleaseUnrefAlways(b) ==
  /\ buf[b].state = "LIVE"
  /\ buf' = [buf EXCEPT ![b].state = "FREED"]
  /\ subRefs' = IF buf[b].seg.encrypted THEN UnrefSubBuffers(subRefs, b) ELSE subRefs
  /\ UNCHANGED <<selected, created>>

\* GStreamer frees a buffer handed back to it; its protection meta, if any,
\* unrefs the three sub-buffers.
Release(b) ==
  /\ buf[b].state = "LIVE"
  /\ buf' = [buf EXCEPT ![b].state = "FREED"]
  /\ subRefs' = IF buf[b].meta THEN UnrefSubBuffers(subRefs, b) ELSE subRefs
  /\ UNCHANGED <<selected, created>>

Finished ==
  /\ created = MaxBuffers /\ \A b \in Buffers : buf[b].state = "FREED"
  /\ UNCHANGED vars

Next ==
  \/ \E seg \in Segments : CreateBuffer(seg)
  \/ \E b \in Buffers : Release(b)
  \/ Finished

Spec == Init /\ [][Next]_vars

-----------------------------------------------------------------------------
\* Every variable keeps its type; no reference count goes negative.
TypeOK ==
  /\ \A b \in Buffers : buf[b].state \in {"NONE", "LIVE", "FREED"}
  /\ subRefs \in [SubBuffers -> Nat]
  /\ selected \subseteq Buffers
  /\ created \in 0..MaxBuffers

\* Every key-id, IV and subsample buffer createBuffer made is referenced
\* exactly while the data buffer it protects is alive with its meta, and
\* released otherwise: none leaks when addProtectionMetadata fails, and
\* none is freed twice when the meta frees it later.
ProtectionRefsBalanced ==
  \A b \in Buffers, k \in SubKinds :
    subRefs[<<b, k>>] =
      IF buf[b].state = "LIVE" /\ buf[b].meta THEN 1 ELSE 0

=============================================================================
