-------------------------- MODULE ReadBodyProofs --------------------------
(* The reader that keeps its first chunk uncopied implements the plain one,  *)
(* for every alphabet, every set of chunks and every limit.                  *)
EXTENDS ReadBody, SequenceTheorems, TLAPS

LEMMA CheckLimitType ==
    ASSUME NEW bytes
    PROVE  CheckLimit(bytes) \in {Reading, TooLarge}
BY DEF CheckLimit

LEMMA InitTypeOK == Init => TypeOK
BY LimitsAssumption DEF Init, TypeOK, Held

LEMMA StepTypeOK == TypeOK /\ [Next]_vars => TypeOK'
<1> SUFFICES ASSUME TypeOK, [Next]_vars PROVE TypeOK'
  OBVIOUS
<1> USE DEF TypeOK
<1>1. ASSUME NEW chunk \in Chunks, First(chunk) PROVE TypeOK'
  <2>1. chunk \in Seq(Byte)
    BY ChunksAssumption
  <2> QED BY <1>1, <2>1, CheckLimitType DEF First, Yields
<1>2. ASSUME NEW chunk \in Chunks, Second(chunk) PROVE TypeOK'
  <2>1. chunk \in Seq(Byte) /\ first \o chunk \in Seq(Byte)
    BY ChunksAssumption
  <2> QED BY <1>2, <2>1, CheckLimitType DEF Second, Yields
<1>3. ASSUME NEW chunk \in Chunks, Rest(chunk) PROVE TypeOK'
  <2>1. chunk \in Seq(Byte) /\ buf \o chunk \in Seq(Byte)
    BY ChunksAssumption
  <2> QED BY <1>3, <2>1, CheckLimitType DEF Rest, Yields
<1>4. CASE End
  BY <1>4 DEF End, Held
<1>5. CASE Break
  BY <1>5 DEF Break, Held
<1>6. CASE UNCHANGED vars
  BY <1>6 DEF vars, Held
<1> QED BY <1>1, <1>2, <1>3, <1>4, <1>5, <1>6 DEF Next, Pull

(* Type correctness: every returned body is the body that is held.           *)
THEOREM TypeCorrect == Spec => []TypeOK
BY InitTypeOK, StepTypeOK, PTL DEF Spec

-----------------------------------------------------------------------------

(* The three stages are one step of the plain reader each.                   *)
LEMMA StepImplements == TypeOK /\ [Next]_vars => [Reader!Next]_Reader!vars
<1> SUFFICES ASSUME TypeOK, [Next]_vars PROVE [Reader!Next]_Reader!vars
  OBVIOUS
<1> USE DEF TypeOK, Held, Reading, Ok, Broken, TooLarge,
            Reader!Reading, Reader!Ok, Reader!Broken, Reader!TooLarge
<1>1. ASSUME NEW chunk \in Chunks, First(chunk) PROVE Reader!Receive(chunk)
  <2>1. chunk \in Seq(Byte) /\ <<>> \o chunk = chunk
    BY ChunksAssumption, ConcatEmptySeq
  <2> QED BY <1>1, <2>1
          DEF First, Yields, CheckLimit, Reader!Receive, Reader!Fits
<1>2. ASSUME NEW chunk \in Chunks, Second(chunk) PROVE Reader!Receive(chunk)
  BY <1>2 DEF Second, Yields, CheckLimit, Reader!Receive, Reader!Fits
<1>3. ASSUME NEW chunk \in Chunks, Rest(chunk) PROVE Reader!Receive(chunk)
  BY <1>3 DEF Rest, Yields, CheckLimit, Reader!Receive, Reader!Fits
<1>4. CASE End
  BY <1>4 DEF End, Reader!Next, Reader!End
<1>5. CASE Break
  BY <1>5 DEF Break, Reader!Next, Reader!Break
<1>6. CASE UNCHANGED vars
  BY <1>6 DEF vars, Reader!vars
<1> QED BY <1>1, <1>2, <1>3, <1>4, <1>5, <1>6 DEF Next, Pull, Reader!Next

(* read_body and async_read_body return what a reader returns that simply    *)
(* collects every byte and checks the limit after each chunk.                *)
THEOREM ReadsTheBody == Spec => ReaderImplemented
<1>1. Init => Reader!Init
  BY DEF Init, Reader!Init, Held, Reading, Reader!Reading
<1> QED BY InitTypeOK, StepTypeOK, StepImplements, <1>1, PTL
        DEF Spec, ReaderImplemented, Reader!Spec

-----------------------------------------------------------------------------

(* The limit holds at every read: what a reader that reads on holds, and the *)
(* body it returns, are within the limit.                                    *)
LEMMA StepWithinLimit ==
    TypeOK /\ WithinLimit /\ [Next]_vars => WithinLimit'
<1> SUFFICES ASSUME TypeOK, WithinLimit, [Next]_vars PROVE WithinLimit'
  OBVIOUS
<1> USE DEF TypeOK, WithinLimit, Held, Reading, TooLarge,
            Broken, Ok
<1>1. ASSUME NEW chunk \in Chunks, First(chunk) PROVE WithinLimit'
  BY <1>1 DEF First, Yields, CheckLimit
<1>2. ASSUME NEW chunk \in Chunks, Second(chunk) PROVE WithinLimit'
  BY <1>2 DEF Second, Yields, CheckLimit
<1>3. ASSUME NEW chunk \in Chunks, Rest(chunk) PROVE WithinLimit'
  BY <1>3 DEF Rest, Yields, CheckLimit
<1>4. CASE End
  BY <1>4 DEF End
<1>5. CASE Break
  BY <1>5 DEF Break
<1>6. CASE UNCHANGED vars
  BY <1>6 DEF vars
<1> QED BY <1>1, <1>2, <1>3, <1>4, <1>5, <1>6 DEF Next, Pull

(* Memory and accepted bodies are bounded by the limit the caller passes.    *)
THEOREM LimitHolds == Spec => []WithinLimit
<1>1. Init => WithinLimit
  BY LimitsAssumption, NoLimitAssumption DEF Init, WithinLimit, Held
<1> QED BY <1>1, InitTypeOK, StepTypeOK, StepWithinLimit, PTL DEF Spec
=============================================================================
