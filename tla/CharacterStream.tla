---------------------------- MODULE CharacterStream ----------------------------
(***************************************************************************)
(* CharacterStream (ioruntime/CharacterStream.cpp): the bytes of a reader, *)
(* one by one, with a place for one that is given back.                    *)
(*                                                                         *)
(* A symbol is a pair <<kind, number>> and stands for a few bytes.  The    *)
(* reader is FileDescriptor::poll_read, by its contract: it is pending     *)
(* unless its flag is set, and yields some of what the peer has sent.      *)
(***************************************************************************)
EXTENDS Integers, Sequences

CONSTANT ReadSize       \* symbols in _buffer

ASSUME CharacterStreamAssumption == ReadSize \in Nat \ {0}

VARIABLES
    text,           \* what the peer sends
    closes,         \* does it close the connection after that?
    taken,          \* symbols of text that were read from the descriptor
    readable,       \* is the descriptor's flag set?
    chars,          \* what is left in _buffer: it is _exhausted without
    lastChar,       \* _last_char: none or one symbol
    finished        \* _finished

streamVars == <<text, closes, taken, readable, chars, lastChar, finished>>

StreamInit ==
    /\ taken = 0
    /\ readable \in BOOLEAN
    /\ chars = <<>>
    /\ lastChar = <<>>
    /\ finished = FALSE

AllTaken == taken = Len(text)

(* poll_next has to ask its reader.                                        *)
Exhausted == lastChar = <<>> /\ chars = <<>>

HasChar == ~finished /\ (Exhausted => readable /\ ~AllTaken)

Char ==
    IF lastChar # <<>> THEN Head(lastChar)
    ELSE IF chars # <<>> THEN Head(chars)
    ELSE text[taken + 1]

(* The symbol that was given back goes before those of the buffer.         *)
TakeBuffered ==
    /\ ~Exhausted
    /\ chars' = IF lastChar # <<>> THEN chars ELSE Tail(chars)
    /\ UNCHANGED <<taken, readable>>

TakeRead ==
    /\ Exhausted
    /\ \E n \in 1 .. ReadSize :
        /\ taken + n <= Len(text)
        /\ chars' = SubSeq(text, taken + 2, taken + n)
        /\ taken' = taken + n
    /\ readable' \in BOOLEAN

(* poll_next is ready with Char.                                           *)
NextChar ==
    /\ HasChar
    /\ TakeBuffered \/ TakeRead
    /\ lastChar' = <<>>
    /\ UNCHANGED <<text, closes, finished>>

(* The same, and the caller gives it back with shift_back.                 *)
NextCharShiftBack ==
    /\ HasChar
    /\ TakeBuffered \/ TakeRead
    /\ lastChar' = <<Char>>
    /\ UNCHANGED <<text, closes, finished>>

(* poll_next is pending: the descriptor has the waker.                     *)
NextPending ==
    /\ ~finished /\ Exhausted
    /\ ~readable \/ (AllTaken /\ ~closes)
    /\ readable' = FALSE
    /\ UNCHANGED <<text, closes, taken, chars, lastChar, finished>>

(* poll_next is finished, for ever.                                        *)
NextFinished ==
    /\ finished \/ (Exhausted /\ readable /\ AllTaken /\ closes)
    /\ finished' = TRUE
    /\ UNCHANGED <<text, closes, taken, readable, chars, lastChar>>

(* The reactor fires the descriptor.                                       *)
DescriptorFires ==
    /\ ~readable
    /\ ~AllTaken \/ closes
    /\ readable' = TRUE
    /\ UNCHANGED <<text, closes, taken, chars, lastChar, finished>>
=============================================================================
