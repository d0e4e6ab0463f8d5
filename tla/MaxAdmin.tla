------------------------------ MODULE MaxAdmin ------------------------------
(***************************************************************************)
(* maxadmin_operations.cpp: one command to MaxScale over TCP, from the     *)
(* connection to the answer.  The answer is a text followed by "OK"; read  *)
(* returns any part of it that has arrived, up to its buffer, and          *)
(* sendCommand looks for the end character by character.  The connection   *)
(* may break at any time.                                                  *)
(***************************************************************************)
EXTENDS Integers, Sequences

CONSTANTS
    Replies,    \* the texts the server may answer with
    ChunkMax,   \* what one read returns at most (80 in the code)
    Kinds       \* subset of {"get_param", "execute"}

(* The characters that matter: O, K, the end of a line, anything else. *)
Chars == {"O", "K", "nl", "x"}

ASSUME MaxAdminAssumption ==
    /\ Replies \subseteq Seq(Chars)
    /\ ChunkMax \in Nat \ {0}
    /\ Kinds \subseteq {"get_param", "execute"}

VARIABLES
    kind,      \* get_maxadmin_param_tcp or execute_maxadmin_command_tcp
    reply,     \* what the server answers before "OK"
    found,     \* the parameter is in the answer
    pc,        \* the next step of the call
    open,      \* the socket is open on this side
    broken,    \* the connection is broken
    pos,       \* characters of the answer looked at
    chunk,     \* characters of the answer read
    newline,   \* 0: within a line, 1: at its beginning, 2: after an O there
    buf,       \* the text stored for the caller
    complete,  \* sendCommand returned 1
    result     \* what the call returned: "none", "0", "1"

answer == <<kind, reply, found>>
scan   == <<pos, chunk, newline, buf>>
vars   == <<answer, pc, open, broken, scan, complete, result>>

Stream == reply \o <<"O", "K">>

TypeOK ==
    /\ kind \in {"get_param", "execute"}
    /\ reply \in Seq(Chars)
    /\ found \in BOOLEAN
    /\ pc \in {"connect", "user", "password", "verdict", "send", "read", "scan", "param", "done"}
    /\ open \in BOOLEAN /\ broken \in BOOLEAN
    /\ pos \in 0..chunk /\ chunk \in 0..(Len(reply) + 2)
    /\ newline \in {0, 1, 2}
    /\ buf \in Seq(Chars)
    /\ complete \in BOOLEAN
    /\ result \in {"none", "0", "1"}

Init ==
    /\ kind \in Kinds /\ reply \in Replies /\ found \in BOOLEAN
    /\ pc = "connect" /\ open = FALSE /\ broken = FALSE
    /\ pos = 0 /\ chunk = 0 /\ newline = 1 /\ buf = <<>>
    /\ complete = FALSE /\ result = "none"

-----------------------------------------------------------------------------
Returns(r, closes) ==
    /\ pc' = "done" /\ result' = r
    /\ open' = (open /\ ~closes)

(* A socket that cannot be connected is closed again. *)
connectMaxScale ==
    /\ pc = "connect"
    /\ \/ pc' = "user" /\ open' = TRUE /\ UNCHANGED result
       \/ Returns("1", TRUE)
    /\ UNCHANGED <<answer, broken, scan, complete>>

(* Three reads, each of exactly as many characters as are asked for: a     *)
(* shorter one, a broken connection or the verdict FAILED is a refusal.    *)
authMaxScale ==
    /\ pc \in {"user", "password", "verdict"}
    /\ \/ /\ ~broken
          /\ pc' = CASE pc = "user" -> "password"
                     [] pc = "password" -> "verdict"
                     [] pc = "verdict" -> "send"
          /\ UNCHANGED <<open, result>>
       \/ Returns("1", TRUE)
    /\ UNCHANGED <<answer, broken, scan, complete>>

(* After sendCommand, whatever it returned. *)
Sent(res) ==
    /\ complete' = res
    /\ IF kind = "get_param"
          THEN pc' = "param" /\ UNCHANGED <<open, result>>
          ELSE Returns("0", TRUE)

WriteCommand ==
    /\ pc = "send"
    /\ \/ ~broken /\ pc' = "read" /\ UNCHANGED <<open, complete, result>>
       \/ broken /\ Sent(FALSE)
    /\ UNCHANGED <<answer, broken, scan>>

(* read(so, buf1, 80): some of what is there, or nothing any more. *)
Read ==
    /\ pc = "read"
    /\ \/ /\ \E i \in 1..ChunkMax :
                chunk + i <= Len(Stream) /\ chunk' = chunk + i
          /\ pc' = "scan" /\ UNCHANGED <<open, complete, result>>
       \/ broken /\ Sent(FALSE) /\ UNCHANGED chunk
    /\ UNCHANGED <<answer, broken, pos, newline, buf>>

Char == Stream[pos + 1]
AtChunkEnd == pos + 1 = chunk

Goes(n, text) ==
    /\ newline' = n /\ buf' = buf \o text
    /\ pc' = IF AtChunkEnd THEN "read" ELSE "scan"
    /\ UNCHANGED <<open, complete, result>>

(* Defective: the O is not put back. *)
NotTheEndLosesO == newline = 2 /\ ~(Char = "K" /\ AtChunkEnd) /\ Goes(0, <<Char>>)

(* Defective: the state is forgotten when a read ends. *)
HoldOInChunk == newline = 1 /\ Char = "O" /\ Goes(IF AtChunkEnd THEN 0 ELSE 2, <<>>)

(* Defective: OK ends the answer wherever it is read. *)
TheEndAnywhere ==
    newline # 1 /\ Char = "K" /\ AtChunkEnd /\ Sent(TRUE) /\ UNCHANGED <<newline, buf>>

(* The branches of the loop over the characters that were read. *)
HoldO == newline = 1 /\ Char = "O" /\ Goes(2, <<>>)
TheEnd == newline = 2 /\ Char = "K" /\ AtChunkEnd /\ Sent(TRUE) /\ UNCHANGED <<newline, buf>>
NotTheEnd == newline = 2 /\ ~(Char = "K" /\ AtChunkEnd) /\ Goes(0, <<"O", Char>>)
EndOfLine == newline # 2 /\ Char = "nl" /\ Goes(1, <<Char>>)
Ordinary == newline # 2 /\ Char # "nl" /\ ~(newline = 1 /\ Char = "O") /\ Goes(0, <<Char>>)

sendCommand ==
    /\ pc = "scan"
    /\ HoldO \/ TheEnd \/ NotTheEnd \/ EndOfLine \/ Ordinary
    /\ pos' = pos + 1
    /\ UNCHANGED <<answer, broken, chunk>>

(* A parameter that is not found: the socket stays open. *)
get_maxadmin_param_tcp ==
    /\ pc = "param"
    /\ IF found THEN Returns("0", TRUE) ELSE Returns("1", FALSE)
    /\ UNCHANGED <<answer, broken, scan, complete>>

Breaks ==
    /\ open /\ ~broken
    /\ broken' = TRUE
    /\ UNCHANGED <<answer, pc, open, scan, complete, result>>

Returned == pc = "done" /\ UNCHANGED vars

Call ==
    \/ connectMaxScale \/ authMaxScale
    \/ WriteCommand \/ Read \/ sendCommand
    \/ get_maxadmin_param_tcp

Next == Call \/ Breaks \/ Returned

Spec == Init /\ [][Next]_vars

(* The program goes on, and what the server has written arrives. *)
FairSpec == Spec /\ WF_vars(Call)

-----------------------------------------------------------------------------
(* The place between characters p and p + 1 is at the beginning of a line. *)
LineStart(p) == p = 0 \/ Stream[p] = "nl"

(* However the answer is cut into reads, what sendCommand has stored, with *)
(* the O it may be holding back, is what it has looked at, and when it     *)
(* returns 1 what it has looked at ends in an OK at the start of a line.   *)
StoredIsSeen ==
    /\ buf \o (IF complete THEN <<"O", "K">> ELSE IF newline = 2 THEN <<"O">> ELSE <<>>)
          = SubSeq(Stream, 1, pos)
    /\ complete => LineStart(pos - 2)

(* No line of the text starts with OK. *)
NoOkLine ==
    \A p \in 0..(Len(reply) - 2) :
        ~(LineStart(p) /\ reply[p + 1] = "O" /\ reply[p + 2] = "K")

(* If no line of the text starts with OK, sendCommand returns 1 only with  *)
(* the whole text.                                                         *)
WholeAnswer == (complete /\ NoOkLine) => buf = reply

(* No line of the text, nor its last one, is a lone O. *)
NoLoneO ==
    \A p \in 0..(Len(reply) - 1) :
        (LineStart(p) /\ reply[p + 1] = "O") =>
            (p + 2 <= Len(reply) /\ reply[p + 2] # "nl")

(* Every text that ends with its line, and has no line that is a lone O,   *)
(* is answered: the call returns.                                          *)
Terminated == reply = <<>> \/ reply[Len(reply)] = "nl"
CallReturns == (Terminated /\ NoLoneO) ~> pc = "done"
=============================================================================
