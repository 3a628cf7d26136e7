-------------------------- MODULE BufferOwnership --------------------------
(***************************************************************************)
(* What the disk stream promises about the buffers of its pool, with the   *)
(* pool's counters, the pointers the handlers carry and the totals left    *)
(* out: each buffer has one owner, and passes from the pool to the device, *)
(* from the device to the disk and from the disk to the pool, at once with *)
(* the next read.  A converted block takes two more buffers to the disk    *)
(* and gives its own back.  A buffer is lost only with the read that fails *)
(* or is refused, or in the format that no branch writes.                  *)
(***************************************************************************)
CONSTANTS Buffers,   \* the pool's buffers
          Formats    \* output types

VARIABLES format,    \* the output type
          owner      \* owner[b]: who may touch buffer b

ownerVars == <<format, owner>>

OwnedBy(o, party) == {b \in Buffers : o[b] = party}

\* The buffers of S pass to a party.
Give(o, S, party) == [b \in Buffers |-> IF b \in S THEN party ELSE o[b]]

OwnerInit ==
    /\ format \in Formats
    /\ owner = [b \in Buffers |-> "pool"]

-----------------------------------------------------------------------------

\* The next read takes a buffer of the pool, when there is one, and loses it when refused.
NextRead(o) ==
    \/ \E b \in OwnedBy(o, "pool"), party \in {"device", "lost"} :
         owner' = Give(o, {b}, party)
    \/ OwnedBy(o, "pool") = {} /\ owner' = o

\* The first read.
FirstRead ==
    /\ OwnedBy(owner, "pool") = Buffers
    /\ NextRead(owner)

\* A block goes to the disk in the buffer it was read into.
WriteNative ==
    /\ format = "S16"
    /\ \E b \in OwnedBy(owner, "device") : NextRead(Give(owner, {b}, "disk"))

\* A block goes to the disk in two other buffers.
WriteConverted ==
    /\ format = "CF32"
    /\ \E b \in OwnedBy(owner, "device"), raw1, raw2 \in OwnedBy(owner, "pool") :
         /\ raw1 # raw2
         /\ NextRead(Give(Give(owner, {raw1, raw2}, "disk"), {b}, "pool"))

\* A block is forgotten, and its buffer.
Forget ==
    /\ format = "CF64"
    /\ \E b \in OwnedBy(owner, "device") : NextRead(Give(owner, {b}, "lost"))

\* The read has failed, and none follows.
EndReading == \E b \in OwnedBy(owner, "device") : owner' = Give(owner, {b}, "lost")

\* The disk is done with a block.
Return == \E S \in SUBSET OwnedBy(owner, "disk") : owner' = Give(owner, S, "pool")

OwnerNext ==
    /\ FirstRead \/ WriteNative \/ WriteConverted \/ Forget \/ EndReading \/ Return
    /\ UNCHANGED format

OwnerSpec == OwnerInit /\ [][OwnerNext]_ownerVars
=============================================================================
