-------------------------------- MODULE TLV --------------------------------
(***************************************************************************)
(* tlv_manager.c: lists of (type, length, value) in a buffer of the user's *)
(* that end with a type of their own.  The buffer is the tlvs it has, one  *)
(* after the other from its start, and the end type; a value is its        *)
(* length.                                                                 *)
(***************************************************************************)
EXTENDS Integers, SequencesExt, FiniteSetsExt

CONSTANTS
    TLV_END_TYPE, OtherType,
    MAX_TLV_VALUE_BYTES,
    UIntSpan,           \* as many unsigned ints as there are
    TLVLengths,         \* the lengths of values that are appended
    TLVBuffers          \* [size, content] that are attached

WORD == 4    \* the bytes of a type and of a length
AnyTLV == [type : {TLV_END_TYPE, OtherType}, length : Nat]

\* A buffer ends at least a type below the largest int.
ASSUME TLVAssumption ==
    /\ MAX_TLV_VALUE_BYTES \in Nat
    /\ UIntSpan \in Nat /\ UIntSpan >= 4 * WORD
    /\ TLVLengths \subseteq 0 .. UIntSpan - 1
    /\ TLVBuffers \subseteq [size : 0 .. UIntSpan \div 2 - 1 - WORD, content : Seq(AnyTLV)]

TLVs == [type : {TLV_END_TYPE, OtherType}, length : TLVLengths]

VARIABLES
    buf_size,
    buffer,             \* the tlvs in it
    idx,                \* where the next one is written
    remaining_size,
    tlvs, n_tlvs,       \* those that were parsed
    outcome,            \* what the last call returned, if it was a parse
    call,               \* history: the last call
    base,               \* history: the list whose end the last tlvm_reset_to_append
                        \* reached, if no other call but appends was made since
    appended            \* history: the tlvs of the last appends that followed one
                        \* another, none once another buffer is attached

tlvVars == <<buf_size, buffer, idx, remaining_size, tlvs, n_tlvs, outcome,
             call, base, appended>>

TLVInit == /\ buf_size = 0
           /\ buffer = << >>
           /\ idx = 0 /\ remaining_size = 0
           /\ tlvs = << >> /\ n_tlvs = 0
           /\ outcome = "none"
           /\ call = "none"
           /\ base = << >> /\ appended = << >>

-----------------------------------------------------------------------------
\* Where the tlvs of list end, and an end type follows.
EndOf(list) == SumFunction([i \in DOMAIN list |-> 2 * WORD + list[i].length])

Reset(size) == /\ idx' = 0
               /\ remaining_size' = size
               /\ tlvs' = << >> /\ n_tlvs' = 0
               /\ outcome' = "none"

\* A buffer of the user's, with a list in it or not.
tlvm_attach(b) ==
    /\ buf_size' = b.size
    /\ buffer' = b.content
    /\ Reset(b.size)
    /\ call' = "attach" /\ base' = << >> /\ appended' = << >>

tlvm_detach ==
    /\ buf_size' = 0
    /\ buffer' = << >>
    /\ Reset(0)
    /\ call' = "detach" /\ base' = << >> /\ appended' = << >>

\* An unsigned int that is assigned to an int
ToInt(n) == IF n % UIntSpan < UIntSpan \div 2 THEN n % UIntSpan
            ELSE (n % UIntSpan) - UIntSpan

\* Mutant: the room for the end type is not asked for.
NeededWithoutEnd(length) == ToInt(length + 2 * WORD)

\* The bytes an append asks for, with the end type that it writes.
Needed(length) == ToInt(length + 3 * WORD)

ValueFits(length) == idx + 2 * WORD + length <= buf_size

\* ENOSPC, or the tlv is written at idx, over what was there and behind it.
tlvm_append(tlv) ==
    /\ Needed(tlv.length) <= remaining_size
    /\ ValueFits(tlv.length)
    /\ LET before == SelectInSeq([i \in 1 .. Len(buffer) + 1 |-> EndOf(SubSeq(buffer, 1, i - 1))],
                                 LAMBDA end : end = idx) - 1
       IN  buffer' = Append(SubSeq(buffer, 1, before), tlv)
    /\ idx' = idx + tlv.length + 2 * WORD
    /\ remaining_size' = remaining_size - (tlv.length + 2 * WORD)
    /\ n_tlvs' = n_tlvs + 1
    /\ appended' = Append(IF call = "append" THEN appended ELSE << >>, tlv)
    /\ base' = IF call \in {"append", "reset_to_append"} THEN base ELSE << >>
    /\ outcome' = "none" /\ call' = "append"
    /\ UNCHANGED <<buf_size, tlvs>>

\* The sum of a length near the end of the ints or of the unsigned ints is cut
\* to less than the room there is, and the value copied far beyond the buffer:
\* the process ends, and another one begins.
append_runs_over(tlv) ==
    /\ Needed(tlv.length) <= remaining_size
    /\ ~ValueFits(tlv.length)
    /\ tlvm_detach

-----------------------------------------------------------------------------
\* What the parse finds at the i-th tlv of the buffer, or at the end type
\* behind them all: to go on, or what it returns.  Both bounds are >=.
Outcome(i) ==
    LET at == EndOf(SubSeq(buffer, 1, i - 1))
    IN  IF at >= buf_size THEN "past"
        ELSE IF at + WORD >= buf_size THEN "ENOSPC"
        ELSE IF i > Len(buffer) \/ buffer[i].type = TLV_END_TYPE THEN "end"
        ELSE IF at + 2 * WORD >= buf_size THEN "ENOSPC"
        ELSE IF buffer[i].length \notin 1 .. MAX_TLV_VALUE_BYTES THEN "EINVAL"
        ELSE "more"

StopsAt == Min({i \in 1 .. Len(buffer) + 1 : Outcome(i) # "more"})

Parsed == SubSeq(buffer, 1, StopsAt - 1)

\* tlvm_parse_engine: the write index is 0 afterwards, and what is left of the
\* buffer is known if the end was reached.  realloc may fail under way.
tlvm_parse_engine(store) ==
    /\ idx' = 0
    /\ \/ /\ outcome' = Outcome(StopsAt)
          /\ n_tlvs' = Len(Parsed)
          /\ tlvs' = IF store THEN Parsed ELSE << >>
          /\ remaining_size' = IF outcome' \in {"past", "end"}
                               THEN buf_size - EndOf(Parsed) ELSE buf_size
       \/ /\ store
          /\ \E had \in 0 .. Len(Parsed) - 1 :
               /\ tlvs' = SubSeq(Parsed, 1, had)
               /\ n_tlvs' = had
          /\ outcome' = "ENOMEM"
          /\ remaining_size' = buf_size
    /\ UNCHANGED <<buf_size, buffer, appended>>

tlvm_parse == tlvm_parse_engine(TRUE) /\ call' = "parse" /\ base' = << >>

tlvm_reset_to_append ==
    /\ tlvm_parse_engine(FALSE)
    /\ call' = "reset_to_append"
    /\ base' = IF outcome' \in {"past", "end"} THEN Parsed ELSE << >>

tlvm_reset == /\ Reset(buf_size)
              /\ call' = "reset" /\ base' = << >>
              /\ UNCHANGED <<buf_size, buffer, appended>>

TLVNext == \/ \E b \in TLVBuffers : tlvm_attach(b)
           \/ \E tlv \in TLVs : tlvm_append(tlv) \/ append_runs_over(tlv)
           \/ tlvm_parse \/ tlvm_reset_to_append \/ tlvm_reset
           \/ tlvm_detach

-----------------------------------------------------------------------------
TLVTypeOK == /\ buf_size \in Nat /\ idx \in Nat
             /\ remaining_size \in Int
             /\ buffer \in Seq(AnyTLV)
             /\ n_tlvs \in Nat
             /\ outcome \in {"none", "past", "end", "ENOSPC", "EINVAL", "ENOMEM"}
             /\ call \in {"none", "attach", "append", "parse", "reset_to_append", "reset", "detach"}
             /\ appended \in Seq(AnyTLV)

\* The tlvs in front of one whose type is the end type
UpToEnd == LET ends == SelectInSeq(buffer, LAMBDA tlv : tlv.type = TLV_END_TYPE)
           IN  IF ends = 0 THEN buffer ELSE SubSeq(buffer, 1, ends - 1)

\* What appends that follow one another put into the buffer is in it, in their
\* order and nothing else, with room for the end type, until the next append
\* after another call; and a parse returns it all, unless a value is empty or
\* too long, which append takes and parse does not, memory is short, or the
\* end type is the last of the buffer: its bound is the last byte's
\* (tlv_manager.c:73), and all but the return value is right.
TLVsRead ==
    /\ TLVTypeOK
    /\ appended # << >> => buffer = appended
    /\ call = "append" => /\ idx = EndOf(appended)
                          /\ idx + WORD <= buf_size
                          /\ remaining_size <= buf_size - idx
    /\ outcome # "none" => IsPrefix(tlvs, UpToEnd)
    /\ (appended # << >> /\ outcome \notin {"none", "ENOMEM"}) =>
         LET wrong == {i \in DOMAIN UpToEnd : UpToEnd[i].length \notin 1 .. MAX_TLV_VALUE_BYTES}
             full == EndOf(UpToEnd) + WORD = buf_size
         IN  /\ wrong = {} => /\ n_tlvs = Len(UpToEnd)
                              /\ call = "parse" => tlvs = UpToEnd
             /\ outcome = IF wrong # {} THEN "EINVAL" ELSE IF full THEN "ENOSPC" ELSE "end"

\* What the code says of tlvm_reset_to_append (tlv_manager.c:52-55): it reaches
\* the end, and tlvm_append continues to add to the list of tlvs.  It has set
\* the write index to 0 (tlv_manager.c:128), and an append writes over the list.
AppendsContinue == call = "append" => buffer = base \o appended
=============================================================================
