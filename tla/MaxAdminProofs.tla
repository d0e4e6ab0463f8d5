---------------------------- MODULE MaxAdminProofs ----------------------------
(* Proofs about the two parts of the harness that administrate MaxScale:     *)
(* MaxAdmin, for every set of answers and every way of cutting them into     *)
(* reads, and ConfigMirror, for every number of servers, of monitors and of  *)
(* commands that do not arrive.                                              *)
EXTENDS MaxAdmin, ConfigMirror, FiniteSetTheorems, SequenceTheorems, TLAPS

(* The type invariant in the parts that different provers are good at. *)
Words   == /\ kind \in {"get_param", "execute"}
           /\ pc \in {"connect", "user", "password", "verdict", "send", "read", "scan", "param", "done"}
           /\ newline \in {0, 1, 2} /\ result \in {"none", "0", "1"}
Flags   == found \in BOOLEAN /\ open \in BOOLEAN /\ broken \in BOOLEAN /\ complete \in BOOLEAN
Texts   == reply \in Seq(Chars) /\ buf \in Seq(Chars)
Places  == /\ pos \in Nat /\ chunk \in Nat
           /\ pos <= chunk /\ chunk <= Len(reply) + 2

MaxAdminTypes == Words /\ Flags /\ Texts /\ Places

(* What sendCommand has looked at and not stored. *)
Held == IF complete THEN 2 ELSE IF newline = 2 THEN 1 ELSE 0

(* What it has stored is the beginning of the answer. *)
Stored == Len(buf) + Held = pos /\ \A i \in 1..Len(buf) : buf[i] = Stream[i]

(* What the variable newline tells of the characters looked at. *)
Knows ==
    /\ newline = 1 => LineStart(pos)
    /\ newline = 2 /\ ~complete => pos >= 1 /\ Stream[pos] = "O" /\ LineStart(pos - 1)
    /\ complete => /\ newline = 2 /\ pos >= 2
                   /\ Stream[pos - 1] = "O" /\ Stream[pos] = "K" /\ LineStart(pos - 2)

(* The loop over the characters has one before it, and nothing is read once *)
(* sendCommand has returned.                                                *)
Scanning ==
    /\ pc = "scan" => pos < chunk
    /\ complete => pc \in {"param", "done"}

MaxAdminInv == MaxAdminTypes /\ Stored /\ Knows /\ Scanning

-----------------------------------------------------------------------------
LEMMA TypeParts == MaxAdminTypes => TypeOK
BY DEF MaxAdminTypes, TypeOK, Words, Flags, Texts, Places

LEMMA StreamFacts ==
    ASSUME Texts
    PROVE  /\ Stream \in Seq(Chars) /\ Len(Stream) = Len(reply) + 2 /\ Len(reply) \in Nat
           /\ \A i \in 1..Len(reply) : Stream[i] = reply[i]
           /\ Stream[Len(reply) + 1] = "O" /\ Stream[Len(reply) + 2] = "K"
BY DEF Texts, Stream, Chars

LEMMA InitMaxAdmin == Init => MaxAdminInv
<1>. SUFFICES ASSUME Init PROVE MaxAdminInv
  OBVIOUS
<1>. USE MaxAdminAssumption DEF Init
<1>1. Words
  BY DEF Words
<1>2. Flags
  BY Zenon DEF Flags
<1>3. Texts /\ Places
  BY DEF Texts, Places
<1>4. Stored /\ Knows /\ Scanning
  BY DEF Stored, Held, Knows, Scanning, LineStart
<1>. QED BY <1>1, <1>2, <1>3, <1>4 DEF MaxAdminInv, MaxAdminTypes

(* A step that leaves the answer and the place in it alone, and ends        *)
(* nothing, keeps what has been stored right.                               *)
LEMMA SameScan ==
    ASSUME MaxAdminInv, UNCHANGED <<reply, pos, newline, buf, complete>>
    PROVE  (Stored /\ Knows)'
BY DEF MaxAdminInv, Stored, Held, Knows, LineStart, Stream

LEMMA Appended ==
    ASSUME NEW b \in Seq(Chars), NEW c \in Seq(Chars)
    PROVE  /\ b \o c \in Seq(Chars) /\ Len(b \o c) = Len(b) + Len(c)
           /\ \A i \in 1..Len(b) : (b \o c)[i] = b[i]
           /\ \A i \in 1..Len(c) : (b \o c)[Len(b) + i] = c[i]
OBVIOUS

(* One round of the loop over the characters that were read. *)
LEMMA OneCharacter == MaxAdminInv /\ sendCommand => MaxAdminInv'
<1>. SUFFICES ASSUME MaxAdminInv, sendCommand PROVE MaxAdminInv'
  OBVIOUS
<1>. USE MaxAdminAssumption DEF MaxAdminInv
<1>0. Words /\ Flags /\ Texts /\ Places
  BY DEF MaxAdminTypes
<1>1. /\ pc = "scan" /\ pos' = pos + 1 /\ UNCHANGED <<kind, reply, found, broken, chunk>>
      /\ ~complete /\ pos + 1 <= chunk
  BY <1>0 DEF sendCommand, answer, Scanning, Places
<1>2. /\ Stream' = Stream /\ Stream \in Seq(Chars) /\ Len(Stream) = Len(reply) + 2
      /\ pos + 1 \in 1..Len(Stream) /\ Char \in Chars
  BY <1>0, <1>1, StreamFacts DEF Stream, Places, Char
<1>3. /\ Len(buf) + (IF newline = 2 THEN 1 ELSE 0) = pos /\ Len(buf) \in Nat
      /\ \A i \in 1..Len(buf) : buf[i] = Stream[i]
  BY <1>0, <1>1 DEF Stored, Held, Texts
<1>4. ASSUME NEW n \in {0, 1, 2}, NEW text \in Seq(Chars), Goes(n, text)
      PROVE  /\ (Words /\ Flags /\ Places /\ Scanning)' /\ ~complete'
             /\ newline' = n /\ buf' = buf \o text /\ Texts'
  <2>1. /\ newline' = n /\ buf' = buf \o text /\ UNCHANGED <<open, complete, result>>
        /\ pc' = IF pos + 1 = chunk THEN "read" ELSE "scan"
    BY <1>4 DEF Goes, AtChunkEnd
  <2>2. (Words /\ Places)'
    BY <1>0, <1>1, <2>1 DEF Words, Places
  <2>3. Flags'
    BY <1>0, <1>1, <2>1 DEF Flags
  <2>4. Scanning'
    BY <1>0, <1>1, <2>1 DEF Scanning, Places
  <2>5. Texts'
    BY <1>0, <1>1, <2>1, Appended DEF Texts
  <2>. QED BY <1>1, <2>1, <2>2, <2>3, <2>4, <2>5
<1>5. CASE HoldO
  <2>1. newline = 1 /\ Char = "O" /\ Goes(2, <<>>)
    BY <1>5 DEF HoldO
  <2>2. /\ (Words /\ Flags /\ Places /\ Scanning)' /\ ~complete'
        /\ newline' = 2 /\ buf' = buf \o <<>> /\ Texts'
    <3>1. <<>> \in Seq(Chars)
      OBVIOUS
    <3>. QED BY <1>4, <2>1, <3>1
  <2>3. buf' = buf
    BY <1>0, <2>2 DEF Texts
  <2>4. Stored'
    BY <1>0, <1>1, <1>2, <1>3, <2>1, <2>2, <2>3 DEF Stored, Held, Places
  <2>5. Knows'
    BY <1>0, <1>1, <1>2, <2>1, <2>2 DEF Knows, Places, LineStart, Char
  <2>. QED BY <2>2, <2>4, <2>5 DEF MaxAdminTypes
<1>6. CASE TheEnd
  <2>1. newline = 2 /\ Char = "K" /\ Sent(TRUE) /\ UNCHANGED <<newline, buf>>
    BY <1>6 DEF TheEnd
  <2>2. /\ complete' /\ complete' \in BOOLEAN /\ pc' \in {"param", "done"}
        /\ result' \in {"0", result}
    BY <2>1 DEF Sent, Returns
  <2>3. (Words /\ Texts /\ Places)'
    BY <1>0, <1>1, <2>1, <2>2 DEF Words, Texts, Places
  <2>4. open' \in BOOLEAN
    BY <1>0, <2>1, Zenon DEF Sent, Returns, Flags
  <2>5. Flags'
    BY <1>0, <1>1, <2>2, <2>4 DEF Flags
  <2>6. Scanning'
    BY <2>2 DEF Scanning
  <2>7. Stored'
    BY <1>0, <1>1, <1>2, <1>3, <2>1, <2>2 DEF Stored, Held, Places
  <2>8. Knows'
    BY <1>0, <1>1, <1>2, <2>1, <2>2 DEF Knows, Places, LineStart, Char
  <2>. QED BY <2>3, <2>5, <2>6, <2>7, <2>8 DEF MaxAdminTypes
<1>7. CASE NotTheEnd
  <2>1. newline = 2 /\ Goes(0, <<"O", Char>>)
    BY <1>7 DEF NotTheEnd
  <2>2. <<"O", Char>> \in Seq(Chars)
    BY <1>2 DEF Chars
  <2>3. /\ (Words /\ Flags /\ Places /\ Scanning)' /\ ~complete'
        /\ newline' = 0 /\ buf' = buf \o <<"O", Char>> /\ Texts'
    BY <1>4, <2>1, <2>2
  <2>4. /\ Len(buf') = Len(buf) + 2
        /\ \A i \in 1..Len(buf) : buf'[i] = buf[i]
        /\ buf'[Len(buf) + 1] = "O" /\ buf'[Len(buf) + 2] = Char
    <3>. DEFINE text == <<"O", Char>>
    <3>1. text \in Seq(Chars) /\ Len(text) = 2 /\ text[1] = "O" /\ text[2] = Char
      BY <2>2
    <3>2. buf \in Seq(Chars) /\ buf' = buf \o text
      BY <1>0, <2>3 DEF Texts
    <3>. HIDE DEF text
    <3>3. /\ Len(buf \o text) = Len(buf) + Len(text)
          /\ \A i \in 1..Len(buf) : (buf \o text)[i] = buf[i]
          /\ \A i \in 1..Len(text) : (buf \o text)[Len(buf) + i] = text[i]
      BY <3>1, <3>2, Appended
    <3>. QED BY <3>1, <3>2, <3>3
  <2>5. Stream[pos] = "O" /\ Len(buf) + 1 = pos
    BY <1>1, <1>3, <2>1 DEF Knows
  <2>6. \A i \in 1..Len(buf') : buf'[i] = Stream[i]
    <3>. SUFFICES ASSUME NEW i \in 1..Len(buf') PROVE buf'[i] = Stream[i]
      OBVIOUS
    <3>1. CASE i \in 1..Len(buf)
      BY <1>3, <2>4, <3>1
    <3>2. CASE i = Len(buf) + 1
      BY <2>4, <2>5, <3>2
    <3>3. CASE i = Len(buf) + 2
      BY <1>3, <2>4, <2>5, <3>3 DEF Char
    <3>. QED BY <1>3, <2>4, <3>1, <3>2, <3>3
  <2>7. Stored'
    BY <1>1, <1>2, <1>3, <2>3, <2>4, <2>5, <2>6 DEF Stored, Held
  <2>8. Knows'
    BY <2>3 DEF Knows
  <2>. QED BY <2>3, <2>7, <2>8 DEF MaxAdminTypes
<1>8. ASSUME NEW n \in {0, 1}, newline # 2, Goes(n, <<Char>>), n = 1 => Char = "nl"
      PROVE  MaxAdminInv'
  <2>1. <<Char>> \in Seq(Chars)
    BY <1>2
  <2>2. /\ (Words /\ Flags /\ Places /\ Scanning)' /\ ~complete'
        /\ newline' = n /\ buf' = buf \o <<Char>> /\ Texts'
    BY <1>4, <1>8, <2>1
  <2>3. /\ Len(buf') = Len(buf) + 1
        /\ \A i \in 1..Len(buf) : buf'[i] = buf[i]
        /\ buf'[Len(buf) + 1] = Char
    <3>. DEFINE text == <<Char>>
    <3>1. text \in Seq(Chars) /\ Len(text) = 1 /\ text[1] = Char
      BY <2>1
    <3>2. buf \in Seq(Chars) /\ buf' = buf \o text
      BY <1>0, <2>2 DEF Texts
    <3>. HIDE DEF text
    <3>3. /\ Len(buf \o text) = Len(buf) + Len(text)
          /\ \A i \in 1..Len(buf) : (buf \o text)[i] = buf[i]
          /\ \A i \in 1..Len(text) : (buf \o text)[Len(buf) + i] = text[i]
      BY <3>1, <3>2, Appended
    <3>. QED BY <3>1, <3>2, <3>3
  <2>4. Len(buf) = pos
    BY <1>0, <1>3, <1>8 DEF Places
  <2>5. \A i \in 1..Len(buf') : buf'[i] = Stream[i]
    <3>. SUFFICES ASSUME NEW i \in 1..Len(buf') PROVE buf'[i] = Stream[i]
      OBVIOUS
    <3>1. CASE i \in 1..Len(buf)
      BY <1>3, <2>3, <3>1
    <3>2. CASE i = Len(buf) + 1
      BY <2>3, <2>4, <3>2 DEF Char
    <3>. QED BY <1>3, <2>3, <3>1, <3>2
  <2>6. Stored'
    <3>1. Held' = 0
      BY <2>2 DEF Held
    <3>2. Len(buf)' + 0 = pos'
      BY <1>1, <1>3, <2>3, <2>4
    <3>. QED BY <1>2, <2>5, <3>1, <3>2 DEF Stored
  <2>7. Knows'
    BY <1>0, <1>1, <1>2, <1>8, <2>2 DEF Knows, LineStart, Char, Places
  <2>. QED BY <2>2, <2>6, <2>7 DEF MaxAdminTypes
<1>9. CASE EndOfLine
  BY <1>8, <1>9 DEF EndOfLine
<1>10. CASE Ordinary
  BY <1>8, <1>10 DEF Ordinary
<1>. QED BY <1>5, <1>6, <1>7, <1>9, <1>10 DEF sendCommand

LEMMA NextMaxAdmin == MaxAdminInv /\ [Next]_vars => MaxAdminInv'
<1>. SUFFICES ASSUME MaxAdminInv, [Next]_vars PROVE MaxAdminInv'
  OBVIOUS
<1>. USE MaxAdminAssumption DEF MaxAdminInv
<1>0. Words /\ Flags /\ Texts /\ Places
  BY DEF MaxAdminTypes
<1>1. CASE connectMaxScale \/ authMaxScale \/ get_maxadmin_param_tcp
  <2>1. UNCHANGED <<kind, reply, found, broken, pos, chunk, newline, buf, complete>>
    BY <1>1 DEF connectMaxScale, authMaxScale, get_maxadmin_param_tcp, answer, scan
  <2>2. /\ pc' \in {"user", "password", "verdict", "send", "done"}
        /\ result' \in {"0", "1", result}
        /\ complete => pc' = "done"
    <3>1. CASE connectMaxScale
      BY <3>1 DEF connectMaxScale, Returns, Scanning
    <3>2. CASE authMaxScale
      BY <3>2 DEF authMaxScale, Returns, Scanning
    <3>3. CASE get_maxadmin_param_tcp
      BY <3>3 DEF get_maxadmin_param_tcp, Returns
    <3>. QED BY <1>1, <3>1, <3>2, <3>3
  <2>3. (Words /\ Texts /\ Places)'
    BY <1>0, <2>1, <2>2 DEF Words, Texts, Places
  <2>4. open' \in BOOLEAN
    BY <1>0, <1>1, Zenon
       DEF connectMaxScale, authMaxScale, get_maxadmin_param_tcp, Returns, Flags
  <2>5. Flags'
    BY <1>0, <2>1, <2>4 DEF Flags
  <2>6. Scanning'
    BY <2>1, <2>2 DEF Scanning
  <2>. QED BY <2>1, <2>3, <2>5, <2>6, SameScan DEF MaxAdminTypes
<1>2. CASE WriteCommand \/ Read
  <2>1. UNCHANGED <<kind, reply, found, broken, pos, newline, buf>> /\ ~complete
    BY <1>2 DEF WriteCommand, Read, answer, scan, Scanning
  <2>2. complete' = FALSE
    BY <1>0, <1>2, <2>1 DEF WriteCommand, Read, Sent, Flags
  <2>3. /\ pc' \in {"read", "scan", "param", "done"}
        /\ result' \in {"0", result}
    <3>1. CASE WriteCommand
      BY <3>1 DEF WriteCommand, Sent, Returns
    <3>2. CASE Read
      BY <3>2 DEF Read, Sent, Returns
    <3>. QED BY <1>2, <3>1, <3>2
  <2>4. chunk' \in Nat /\ chunk <= chunk' /\ chunk' <= Len(reply) + 2
        /\ (pc' = "scan" => chunk < chunk')
    <3>1. CASE WriteCommand
      BY <1>0, <3>1 DEF WriteCommand, Sent, Returns, scan, Places
    <3>2. CASE Read
      BY <1>0, <3>2, StreamFacts DEF Read, Sent, Returns, Places
    <3>. QED BY <1>2, <3>1, <3>2
  <2>5. (Words /\ Texts /\ Places)'
    BY <1>0, <2>1, <2>3, <2>4 DEF Words, Texts, Places
  <2>6. open' \in BOOLEAN
    BY <1>0, <1>2, Zenon DEF WriteCommand, Read, Sent, Returns, Flags
  <2>7. Flags'
    BY <1>0, <2>1, <2>2, <2>6 DEF Flags
  <2>8. Scanning'
    BY <1>0, <2>1, <2>2, <2>4 DEF Scanning, Places
  <2>9. complete' = complete
    BY <1>0, <2>1, <2>2 DEF Flags
  <2>. QED BY <2>1, <2>5, <2>7, <2>8, <2>9, SameScan DEF MaxAdminTypes
<1>3. CASE sendCommand
  BY <1>3, OneCharacter
<1>4. CASE Breaks \/ UNCHANGED vars
  <2>1. UNCHANGED <<kind, reply, found, pc, open, pos, chunk, newline, buf, complete, result>>
    BY <1>4 DEF Breaks, answer, scan, vars
  <2>2. broken' \in BOOLEAN
    BY <1>0, <1>4, Zenon DEF Breaks, vars, Flags
  <2>3. (Words /\ Texts /\ Places /\ Scanning)'
    BY <1>0, <2>1 DEF Words, Texts, Places, Scanning
  <2>4. Flags'
    BY <1>0, <2>1, <2>2 DEF Flags
  <2>. QED BY <2>1, <2>3, <2>4, SameScan DEF MaxAdminTypes
<1>. QED BY <1>1, <1>2, <1>3, <1>4 DEF Next, Call, Returned

-----------------------------------------------------------------------------
(* The inductive invariant of MaxAdmin. *)
THEOREM MaxAdminInvariant == Spec => []MaxAdminInv
<1>. QED BY InitMaxAdmin, NextMaxAdmin, PTL DEF Spec

(* The variables of a call keep their types: no read goes beyond the answer *)
(* and no character is looked at before it was read.                        *)
THEOREM MaxAdminTypeCorrect == Spec => []TypeOK
<1>1. MaxAdminInv => TypeOK
  BY TypeParts DEF MaxAdminInv
<1>. QED BY <1>1, MaxAdminInvariant, PTL

(* However the answer is cut into reads, what sendCommand has stored, with  *)
(* the O it may be holding back, is what it has looked at, and it returns 1 *)
(* only after an OK at the beginning of a line.                             *)
THEOREM NothingLostInReads == Spec => []StoredIsSeen
<1>1. MaxAdminInv => StoredIsSeen
  <2>. SUFFICES ASSUME MaxAdminInv PROVE StoredIsSeen
    OBVIOUS
  <2>. USE DEF MaxAdminInv
  <2>0. Words /\ Flags /\ Texts /\ Places
    BY DEF MaxAdminTypes
  <2>. DEFINE held == IF complete THEN <<"O", "K">> ELSE IF newline = 2 THEN <<"O">> ELSE <<>>
              seen == SubSeq(Stream, 1, pos)
              text == buf \o held
  <2>1. Stream \in Seq(Chars) /\ pos \in 0..Len(Stream)
    BY <2>0, StreamFacts DEF Places
  <2>2. seen \in Seq(Chars) /\ Len(seen) = pos /\ \A i \in 1..pos : seen[i] = Stream[i]
    BY <2>1
  <2>3. held \in Seq(Chars) /\ Len(held) = Held /\ Held \in Nat
    <3>1. <<"O", "K">> \in Seq(Chars) /\ Len(<<"O", "K">>) = 2
      BY DEF Chars
    <3>2. <<"O">> \in Seq(Chars) /\ Len(<<"O">>) = 1
      BY DEF Chars
    <3>3. <<>> \in Seq(Chars) /\ Len(<<>>) = 0
      OBVIOUS
    <3>4. CASE complete
      BY <3>1, <3>4 DEF Held
    <3>5. CASE ~complete /\ newline = 2
      BY <3>2, <3>5 DEF Held
    <3>6. CASE ~complete /\ newline # 2
      BY <3>3, <3>6 DEF Held
    <3>. QED BY <3>4, <3>5, <3>6
  <2>4. \A i \in 1..Held : held[i] = Stream[Len(buf) + i]
    <3>1. CASE complete
      BY <2>0, <3>1 DEF Held, Knows, Stored, Texts
    <3>2. CASE ~complete /\ newline = 2
      BY <2>0, <3>2 DEF Held, Knows, Stored, Texts
    <3>3. CASE ~complete /\ newline # 2
      BY <3>3 DEF Held
    <3>. QED BY <3>1, <3>2, <3>3
  <2>. HIDE DEF held, seen
  <2>5. /\ text \in Seq(Chars) /\ Len(text) = Len(buf) + Held /\ Len(buf) \in Nat /\ Held \in Nat
        /\ \A i \in 1..Len(buf) : text[i] = buf[i]
        /\ \A i \in 1..Held : text[Len(buf) + i] = held[i]
    <3>1. buf \in Seq(Chars) /\ Len(buf) \in Nat
      BY <2>0 DEF Texts
    <3>. QED BY <2>3, <3>1, Appended
  <2>. HIDE DEF text
  <2>6. ASSUME NEW i \in 1..Len(text) PROVE text[i] = seen[i]
    <3>0. Len(text) = pos /\ i \in 1..pos
      BY <2>5 DEF Stored
    <3>1. CASE i <= Len(buf)
      <4>1. i \in 1..Len(buf)
        BY <2>5, <3>1
      <4>. QED BY <2>2, <2>5, <3>0, <4>1 DEF Stored
    <3>2. CASE i > Len(buf)
      <4>1. i - Len(buf) \in 1..Held /\ Len(buf) + (i - Len(buf)) = i
        BY <2>5, <3>2
      <4>. QED BY <2>2, <2>4, <2>5, <3>0, <4>1
    <3>. QED BY <2>5, <3>1, <3>2
  <2>7. text = seen
    BY <2>2, <2>5, <2>6, SeqEqual DEF Stored
  <2>. QED BY <2>7 DEF StoredIsSeen, Knows, text, seen, held
<1>. QED BY <1>1, MaxAdminInvariant, PTL

(* If no line of the text starts with OK, sendCommand returns 1 only with   *)
(* the whole text of the answer.                                            *)
THEOREM AnswerIsWhole == Spec => []WholeAnswer
<1>1. MaxAdminInv => WholeAnswer
  <2>. SUFFICES ASSUME MaxAdminInv, complete, NoOkLine PROVE buf = reply
    BY DEF WholeAnswer
  <2>. USE DEF MaxAdminInv
  <2>0. Words /\ Flags /\ Texts /\ Places
    BY DEF MaxAdminTypes
  <2>1. /\ Len(reply) \in Nat /\ \A i \in 1..Len(reply) : Stream[i] = reply[i]
        /\ Stream[Len(reply) + 1] = "O"
    BY <2>0, StreamFacts
  <2>2. /\ pos \in Nat /\ pos >= 2 /\ pos <= Len(reply) + 2
        /\ Stream[pos - 1] = "O" /\ Stream[pos] = "K" /\ LineStart(pos - 2)
    BY <2>0, <2>1 DEF Knows, Places
  <2>3. pos # Len(reply) + 1
    BY <2>1, <2>2
  <2>4. ~(pos <= Len(reply))
    <3>. SUFFICES ASSUME pos <= Len(reply) PROVE FALSE
      OBVIOUS
    <3>1. pos - 2 \in 0..(Len(reply) - 2) /\ (pos - 2) + 1 = pos - 1 /\ (pos - 2) + 2 = pos
      BY <2>1, <2>2
    <3>2. reply[pos - 1] = "O" /\ reply[pos] = "K"
      BY <2>1, <2>2
    <3>. QED BY <2>2, <3>1, <3>2 DEF NoOkLine
  <2>5. pos = Len(reply) + 2
    BY <2>1, <2>2, <2>3, <2>4
  <2>6. Len(buf) = Len(reply) /\ \A i \in 1..Len(buf) : buf[i] = reply[i]
    BY <2>0, <2>1, <2>5 DEF Stored, Held, Texts
  <2>. QED BY <2>0, <2>6, SeqEqual DEF Texts
<1>. QED BY <1>1, MaxAdminInvariant, PTL

-----------------------------------------------------------------------------
(* ConfigMirror: a server that the mirror has exists, or its last creation *)
(* has not arrived; the mirror is finite.                                  *)
MirrorInv ==
    /\ created_servers_ \subseteq Servers
    /\ created_servers_ \subseteq servers \cup unborn
    /\ IsFiniteSet(created_monitors_)
    /\ lost \in Nat

LEMMA ServicesFinite == IsFiniteSet(Services)
<1>1. /\ IsFiniteSet({"rwsplit-service"})
      /\ IsFiniteSet({"read-connection-router-master"})
      /\ IsFiniteSet({"read-connection-router-slave"})
  BY FS_Singleton
<1>2. Services = {"rwsplit-service"} \cup ({"read-connection-router-master"}
                           \cup {"read-connection-router-slave"})
  BY DEF Services
<1>. QED BY <1>1, <1>2, FS_Union

(* ConfigMirror counts with the Cardinality of its own instance of FiniteSets. *)
(* Commands that are lost are counted. *)
LEMMA LostCounts ==
    ASSUME lost \in Nat, NEW commands, IsFiniteSet(commands), NEW gone, Lose(commands, gone)
    PROVE  lost' \in Nat
<1>1. IsFiniteSet(gone)
  BY FS_Subset DEF Lose
<1>2. Cardinality(gone) \in Nat
  BY <1>1, FS_CardinalityType
<1>3. lost' = lost + Cardinality(gone)
  BY DEF Lose
<1>. QED BY <1>2, <1>3

LEMMA InitMirror == ConfigInit => MirrorInv
BY FS_EmptySet DEF ConfigInit, MirrorInv

(* reset creates what the mirror does not have; what it has and MaxScale   *)
(* has not was never created.                                              *)
LEMMA ResetKeeps ==
    ASSUME MirrorInv, reset
    PROVE  /\ MirrorInv'
           /\ Servers \ servers' \subseteq unborn'
           /\ lost' = lost =>
                 (Servers \ created_servers_) \X Objects(created_monitors_)
                     \subseteq links'
<1>. DEFINE missing == Servers \ created_servers_
            targets == Services \cup created_monitors_
            adds    == missing \X targets
<1>. USE DEF MirrorInv
<1>1. PICK gone \in SUBSET missing, away \in SUBSET adds :
          /\ lost' = lost + Cardinality(gone) + Cardinality(away)
          /\ servers' = servers \cup (missing \ gone)
          /\ unborn' = (unborn \ missing) \cup gone
          /\ links' = links \cup {link \in adds \ away :
                                    link[1] \in servers' /\ link[2] \in Objects(created_monitors_)}
  BY Zenon DEF reset
<1>2. created_servers_' = created_servers_ \cup missing /\ created_monitors_' = created_monitors_
  BY DEF reset
<1>3. IsFiniteSet(missing) /\ IsFiniteSet(targets)
  <2>1. IsFiniteSet(Servers)
    BY ConfigAssumption, FS_Interval DEF Servers
  <2>. QED BY <2>1, ServicesFinite, FS_Subset, FS_Union
<1>4. IsFiniteSet(adds)
  BY <1>3, FS_Product
<1>5. IsFiniteSet(gone) /\ IsFiniteSet(away)
  BY <1>3, <1>4, FS_Subset
<1>6. /\ Cardinality(gone) \in Nat /\ Cardinality(away) \in Nat
      /\ lost' = lost + Cardinality(gone) + Cardinality(away)
  BY <1>1, <1>5, FS_CardinalityType
<1>7. lost' \in Nat /\ (lost' = lost => Cardinality(gone) = 0 /\ Cardinality(away) = 0)
  BY <1>6
<1>8. lost' = lost => gone = {} /\ away = {}
  BY <1>5, <1>7, FS_EmptySet
<1>9. MirrorInv'
  BY <1>1, <1>2, <1>7
<1>10. Servers \ servers' \subseteq unborn'
  BY <1>1
<1>11. ASSUME lost' = lost, NEW x \in missing, NEW y \in Objects(created_monitors_)
       PROVE  <<x, y>> \in links'
  <2>1. x \in servers'
    BY <1>1, <1>8, <1>11
  <2>2. y \in targets
    BY <1>11 DEF Objects
  <2>3. <<x, y>> \in adds \ away
    BY <1>8, <1>11, <2>2
  <2>. QED BY <1>1, <1>11, <2>1, <2>3
<1>. QED BY <1>9, <1>10, <1>11

LEMMA NextMirror ==
    ASSUME MirrorInv, [ConfigNext]_config
    PROVE  MirrorInv'
<1>. USE DEF MirrorInv
<1>0. IsFiniteSet(Services \cup created_monitors_) /\ IsFiniteSet(created_servers_)
  <2>1. IsFiniteSet(Servers)
    BY ConfigAssumption, FS_Interval DEF Servers
  <2>. QED BY <2>1, ServicesFinite, FS_Subset, FS_Union
<1>1. CASE reset
  BY <1>1, ResetKeeps
<1>2. ASSUME NEW n \in Servers, add_server(n) \/ remove_server(n)
      PROVE  MirrorInv'
  <2>1. UNCHANGED <<servers, created_servers_, created_monitors_, unborn>>
    BY <1>2 DEF add_server, remove_server
  <2>2. lost' \in Nat
    BY <1>0, <1>2, LostCounts DEF add_server, remove_server
  <2>. QED BY <2>1, <2>2
<1>3. ASSUME NEW n \in Servers, destroy_server(n) PROVE MirrorInv'
  <2>1. IsFiniteSet({n})
    BY FS_Singleton
  <2>2. lost' \in Nat
    BY <1>3, <2>1, LostCounts DEF destroy_server
  <2>. QED BY <1>3, <2>2 DEF destroy_server
<1>4. ASSUME NEW n \in Servers, create_server(n) PROVE MirrorInv'
  <2>1. IsFiniteSet({n})
    BY FS_Singleton
  <2>2. lost' \in Nat
    BY <1>4, <2>1, LostCounts DEF create_server
  <2>. QED BY <1>4, <2>2 DEF create_server
<1>5. ASSUME NEW m \in Monitors, add_created_servers(m) PROVE MirrorInv'
  <2>1. lost' \in Nat
    BY <1>0, <1>5, LostCounts DEF add_created_servers
  <2>. QED BY <1>5, <2>1 DEF add_created_servers
<1>6. ASSUME NEW m \in Monitors, create_monitor(m) \/ destroy_monitor(m)
      PROVE  MirrorInv'
  <2>1. IsFiniteSet({m})
    BY FS_Singleton
  <2>2. lost' \in Nat
    BY <1>6, <2>1, LostCounts DEF create_monitor, destroy_monitor
  <2>3. \/ created_monitors_' = created_monitors_ \cup {m}
        \/ created_monitors_' = created_monitors_ \ {m}
    BY <1>6 DEF create_monitor, destroy_monitor
  <2>4. IsFiniteSet(created_monitors_ \cup {m}) /\ IsFiniteSet(created_monitors_ \ {m})
    BY <2>1, FS_Union, FS_Difference
  <2>5. UNCHANGED <<servers, created_servers_, unborn>>
    BY <1>6 DEF create_monitor, destroy_monitor
  <2>. QED BY <2>2, <2>3, <2>4, <2>5
<1>7. ASSUME NEW s \in Services, create_listener(s) \/ destroy_listener(s)
      PROVE  MirrorInv'
  <2>1. IsFiniteSet({s})
    BY FS_Singleton
  <2>2. lost' \in Nat
    BY <1>7, <2>1, LostCounts DEF create_listener, destroy_listener
  <2>3. UNCHANGED <<servers, created_servers_, created_monitors_, unborn>>
    BY <1>7 DEF create_listener, destroy_listener
  <2>. QED BY <2>2, <2>3
<1>8. CASE UNCHANGED config
  BY <1>8 DEF config, maxscale
<1>. QED BY <1>1, <1>2, <1>3, <1>4, <1>5, <1>6, <1>7, <1>8 DEF ConfigNext

(* After reset (config_operations.cpp:199) every server exists, except     *)
(* those whose creation has not arrived; and if all its commands arrive,   *)
(* the servers that the mirror did not have are in every service and in    *)
(* every monitor that exists.                                              *)
THEOREM ResetRepairs == ConfigSpec => ResetRestores
<1>1. ConfigInit => MirrorInv
  BY InitMirror
<1>2. MirrorInv /\ [ConfigNext]_config => MirrorInv'
  BY NextMirror
<1>3. MirrorInv /\ [ConfigNext]_config =>
          [reset =>
               /\ Servers \ servers' \subseteq unborn'
               /\ lost' = lost =>
                     (Servers \ created_servers_) \X Objects(created_monitors_)
                         \subseteq links']_config
  BY ResetKeeps
<1>. QED BY <1>1, <1>2, <1>3, PTL DEF ConfigSpec, ResetRestores
=============================================================================
