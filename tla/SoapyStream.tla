---------------------------- MODULE SoapyStream ----------------------------
(***************************************************************************)
(* The sample formats of the SoapySDR driver (setupStream, getStreamMTU    *)
(* and readStream of src/src/IC7610SDR_Streaming.cpp, over readIQData of   *)
(* IcomIQPort.cpp).  setupStream hands out the device object itself as the *)
(* stream, so every stream an application sets up shares one format, a     *)
(* std::string that is assigned and copied without a lock; and one         *)
(* readStream looks the format up as many as six times.                    *)
(*                                                                         *)
(* Memory is counted in bytes: how far a read goes in the buffer its       *)
(* caller gave it, which holds as many elements of the format the caller   *)
(* set up as it asks for.  The samples themselves, the flag that readIQData*)
(* tests first and the driver are left out: SoapyDevice has the flag, and  *)
(* here FT_ReadPipe may transfer or fail as it likes.                      *)
(***************************************************************************)
EXTENDS Naturals

CONSTANTS Streams,     \* who calls setupStream and readStream, each one call at a time
          Requests,    \* numbers of elements asked for
          Align,       \* complex samples in 512 bytes (128)
          Block        \* complex samples in IQ_BLOCK_LENGTH bytes (1024)

ASSUME StreamAssumption ==
    /\ Requests \subseteq Nat
    /\ Align \in Nat \ {0}
    /\ Block \in Nat \ {0} /\ Block % Align = 0

VARIABLES text,        \* the characters in _rx_stream.format
          size,        \* and its length
          agreed,      \* the format each stream was last set up with
          disturbed,   \* another set-up has touched the format since
          pc,          \* where each stream's caller is
          want,        \* numElems
          elems,       \* returnedElems, the size of readStream's own buffer
          got,         \* samplesRead
          touched,     \* bytes of the caller's buffer that were read or written
          delivered    \* elements written to the caller's buffer

reading == <<want, elems, got, touched, delivered>>
vars == <<text, size, agreed, disturbed, pc, want, elems, got, touched, delivered>>

\* In the order in which readStream compares them.
Formats == {"S16", "CS16", "CF32", "CF64"}

\* What a caller may ask for; the driver does not support the last.
Names == Formats \cup {"CS8"}

ElementSize == [S16 |-> 2, CS16 |-> 4, CF32 |-> 8, CF64 |-> 16]
SampleSize == 4     \* BYTES_PER_SAMPLE

Lengths == [S16 |-> 3, CS16 |-> 4, CF32 |-> 4, CF64 |-> 4]

\* What _rx_stream.format compares equal to: between the two stores of an assignment
\* that changes its length, to none of the names.
Format == IF Lengths[text] = size THEN text ELSE "none"

TypeOK ==
    /\ text \in Formats /\ size \in {3, 4}
    /\ agreed \in [Streams -> Names \cup {"none"}]
    /\ disturbed \in [Streams -> BOOLEAN]
    /\ pc \in [Streams -> {"idle", "text", "size", "halve", "read"} \cup Formats]
    /\ want \in [Streams -> Nat] /\ elems \in [Streams -> Nat] /\ got \in [Streams -> Nat]
    /\ touched \in [Streams -> Nat] /\ delivered \in [Streams -> Nat]

Nothing == [s \in Streams |-> 0]

Init ==
    /\ text = "CS16" /\ size = Lengths["CS16"]
    /\ agreed = [s \in Streams |-> "none"]
    /\ disturbed = [s \in Streams |-> FALSE]
    /\ pc = [s \in Streams |-> "idle"]
    /\ want = Nothing /\ elems = Nothing /\ got = Nothing
    /\ touched = Nothing /\ delivered = Nothing

Goto(s, from, to) == pc[s] = from /\ pc' = [pc EXCEPT ![s] = to]

-----------------------------------------------------------------------------
(* setupStream                                                             *)

\* validFormat: any other name is silently CS16.
Effective(f) == IF f \in Formats THEN f ELSE "CS16"

SettingUp(s) == pc[s] \in {"text", "size"}

\* Nothing refuses a set-up while another stream is set up, or is being read.
setupStream(s, f) ==
    /\ Goto(s, "idle", "text")
    /\ agreed' = [agreed EXCEPT ![s] = f]
    /\ disturbed' = [u \in Streams |->
         IF u = s THEN \E v \in Streams \ {s} : SettingUp(v)
         ELSE disturbed[u] \/ (agreed[u] # "none" /\ Effective(agreed[u]) # Effective(f))]
    /\ want' = [want EXCEPT ![s] = 0] /\ elems' = [elems EXCEPT ![s] = 0]
    /\ got' = [got EXCEPT ![s] = 0] /\ touched' = [touched EXCEPT ![s] = 0]
    /\ delivered' = [delivered EXCEPT ![s] = 0]
    /\ UNCHANGED <<text, size>>

\* The assignment copies the characters and then sets the length.
SetText(s) ==
    /\ Goto(s, "text", "size")
    /\ text' = Effective(agreed[s])
    /\ UNCHANGED <<size, agreed, disturbed, reading>>

SetSize(s) ==
    /\ Goto(s, "size", "idle")
    /\ size' = Lengths[Effective(agreed[s])]
    /\ UNCHANGED <<text, agreed, disturbed, reading>>

-----------------------------------------------------------------------------
(* readStream                                                              *)

Smaller(m, n) == IF m < n THEN m ELSE n

\* Faulty variant: the number of complex samples in every format.
StreamMTU_Complex(f) == Block

\* getStreamMTU
StreamMTU(f) == IF f = "S16" THEN 2 * Block ELSE Block

\* readStream's first use of the format.
readStream(s, n) ==
    /\ agreed[s] # "none"
    /\ Goto(s, "idle", "halve")
    /\ want' = [want EXCEPT ![s] = n]
    /\ elems' = [elems EXCEPT ![s] = Smaller(n, StreamMTU(Format))]
    /\ got' = [got EXCEPT ![s] = 0] /\ touched' = [touched EXCEPT ![s] = 0]
    /\ delivered' = [delivered EXCEPT ![s] = 0]
    /\ UNCHANGED <<text, size, agreed, disturbed>>

\* Faulty variant: the number of shorts is taken for that of complex samples.
Halve_Not(s) ==
    /\ Goto(s, "halve", "read")
    /\ UNCHANGED <<text, size, agreed, disturbed, reading>>

\* A complex sample is two elements of S16.
Halve(s) ==
    /\ Goto(s, "halve", "read")
    /\ elems' = [elems EXCEPT ![s] = IF Format = "S16" THEN @ \div 2 ELSE @]
    /\ UNCHANGED <<text, size, agreed, disturbed, want, got, touched, delivered>>

\* Faulty variant: the request is rounded up.
Aligned_Up(n) == ((n + Align - 1) \div Align) * Align

\* readIQData asks the driver for whole units of 512 bytes.
Aligned(n) == (n \div Align) * Align

\* The transfer brings up to what was asked; an error or an empty one ends the call.
readIQData(s) ==
    /\ \/ \E n \in 1 .. Aligned(elems[s]) :
            Goto(s, "read", "S16") /\ got' = [got EXCEPT ![s] = n]
       \/ Goto(s, "read", "idle") /\ UNCHANGED got
    /\ UNCHANGED <<text, size, agreed, disturbed, want, elems, touched, delivered>>

\* Where the comparisons go on when one fails.
Following == [S16 |-> "CS16", CS16 |-> "CF32", CF32 |-> "CF64", CF64 |-> "idle"]

\* Faulty variant: the index is counted up in the loop's body as well.
Delivered_EveryOther(f, n) == IF f \in {"CF32", "CF64"} THEN (n + 1) \div 2 ELSE 0

\* The shorts are not delivered: their memcpy goes from the caller's buffer to the own.
Delivered(f, n) == IF f \in {"CF32", "CF64"} THEN n ELSE 0

\* Bytes of the caller's buffer a conversion of n samples reaches.
Touched(f, n) == IF f = "S16" THEN n * SampleSize ELSE n * ElementSize[f]

\* One comparison, with the conversion when it holds.
Compare(s, f) ==
    /\ IF Format = f
       THEN /\ Goto(s, f, "idle")
            /\ touched' = [touched EXCEPT ![s] = Touched(f, got[s])]
            /\ delivered' = [delivered EXCEPT ![s] = Delivered(f, got[s])]
       ELSE /\ Goto(s, f, Following[f])
            /\ UNCHANGED <<touched, delivered>>
    /\ UNCHANGED <<text, size, agreed, disturbed, want, elems, got>>

Next ==
    \E s \in Streams :
        \/ \E f \in Names : setupStream(s, f)
        \/ SetText(s) \/ SetSize(s)
        \/ \E n \in Requests : readStream(s, n)
        \/ Halve(s) \/ readIQData(s)
        \/ \E f \in Formats : Compare(s, f)

Spec == Init /\ [][Next]_vars

-----------------------------------------------------------------------------
(* Properties                                                              *)

\* Nobody else has changed the format under this stream, and the driver supports its own.
Undisturbed(s) == agreed[s] \in Formats /\ ~disturbed[s]

(***************************************************************************)
(* readStream stays inside the caller's buffer, though it sizes the        *)
(* request, halves it and converts by three or more looks at the shared    *)
(* format, as long as no other set-up has come in between; and inside its  *)
(* own buffer whatever others do, because that has the size of the request.*)
(***************************************************************************)
MemoryRespected ==
    \A s \in Streams :
        /\ Undisturbed(s) => touched[s] <= want[s] * ElementSize[agreed[s]]
        /\ got[s] <= elems[s]

(***************************************************************************)
(* A float stream that was left alone delivers every sample it reports, as *)
(* elements of the caller's buffer from the first on.  (The short formats  *)
(* deliver none: their copy goes the wrong way.)                           *)
(***************************************************************************)
FloatsDelivered ==
    \A s \in Streams :
        Undisturbed(s) /\ pc[s] = "idle" /\ agreed[s] \in {"CF32", "CF64"}
          => delivered[s] = got[s]

(***************************************************************************)
(* The MTU is what an application sizes its buffers by: asking for that    *)
(* many elements of its format makes the driver read one whole block,      *)
(* neither part of it nor more than the buffer holds.                      *)
(***************************************************************************)
MTUIsOneBlock ==
    \A s \in Streams :
        Undisturbed(s) /\ pc[s] = "read" /\ want[s] >= StreamMTU(agreed[s])
          => Aligned(elems[s]) = Block
=============================================================================
