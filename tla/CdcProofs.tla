------------------------------ MODULE CdcProofs ------------------------------
(* Proofs about the two clients of the CDC listener: CdcClient, for every   *)
(* range of values and every way of cutting messages into pieces, and       *)
(* CdcConnector, for every number of types, of values and of faults.        *)
EXTENDS CdcClient, CdcConnector, SequenceTheorems, TLAPS

Before == {"connect", "auth", "registered"}
Piece  == [of : Int, all : BOOLEAN]

ClientTypes ==
    /\ pc \in Before \cup {"wait", "join", "ended"}
    /\ thread \in {"poll", "formatted", "cleared", "ended"}
    /\ ignore_first \in {0, 1, 2}
    /\ inserted_val \in Nat /\ insert_val \in Nat /\ str \in Nat
    /\ table \in Seq(Nat) /\ inbox \in Seq(Piece) /\ binlog \in Seq(Int)

(* Before the first insert nothing has been asked for and nothing inserted; *)
(* query_thread lives as long as cdc_com reads.                             *)
Starting ==
    /\ pc \in Before => ignore_first = 2
    /\ pc \in Before \cup {"wait"} => ~exit_flag /\ thread # "ended"
    /\ ignore_first > 0 =>
          inserted_val = 0 /\ insert_val = 0 /\ table = <<>> /\ thread \in {"poll", "ended"}
    /\ ignore_first = 0 => inserted_val >= StartVal

(* A value that is to be inserted is above all that were. *)
Rising ==
    /\ insert_val \in {0, inserted_val}
    /\ \A k \in 1..Len(table) : table[k] <= inserted_val
    /\ thread \in {"formatted", "cleared"} =>
          str <= inserted_val /\ \A k \in 1..Len(table) : table[k] < str
    /\ insert_val # 0 /\ thread # "formatted" => \A k \in 1..Len(table) : table[k] < insert_val
    /\ insert_val # 0 /\ thread = "cleared" => str < insert_val

(* The messages under way, in the inbox and in the binlog: one, or two. *)
Pieces(m) == {Whole(m), Halves(m)}
One(m, in, log) ==
    \/ in = <<>> /\ log = <<m>>
    \/ in \in Pieces(m) /\ log = <<>>
Two(a, b, in, log) ==
    \/ in = <<>> /\ log = <<a, b>>
    \/ in \in Pieces(a) /\ log = <<b>>
    \/ (\E p \in Pieces(a), q \in Pieces(b) : in = p \o q) /\ log = <<>>

(* Undisturbed, there is one message for every read that cdc_com will make, *)
(* and a row is under way exactly when query_thread has nothing to do.      *)
UnderWay ==
    /\ pc = "connect" => inbox = <<>> /\ binlog = <<>>
    /\ pc \in {"auth", "registered"} => One(Ok, inbox, binlog)
    /\ pc = "wait" /\ ignore_first = 2 => Two(Schema, FirstRow, inbox, binlog)
    /\ pc = "wait" /\ ignore_first = 1 => One(FirstRow, inbox, binlog)
    /\ pc = "wait" /\ ignore_first = 0 /\ IdleThread => One(inserted_val, inbox, binlog)
    /\ pc = "wait" /\ ignore_first = 0 /\ ~IdleThread => inbox = <<>> /\ binlog = <<>>

InTurn ==
    ~disturbed =>
        /\ UnderWay
        /\ ~wrong /\ result # "timed_out"
        /\ \A k \in 1..Len(table) : table[k] = StartVal + k - 1
        /\ ignore_first = 0 =>
              inserted_val = StartVal + Len(table) - (IF IdleThread THEN 1 ELSE 0)
        /\ thread \in {"formatted", "cleared"} => str = inserted_val
        /\ thread = "cleared" => insert_val = 0

ClientInv == ClientTypes /\ Starting /\ Rising /\ InTurn

-----------------------------------------------------------------------------
(* Facts about messages and their pieces. *)

LEMMA PieceFacts ==
    ASSUME NEW m \in Int
    PROVE  /\ Whole(m) \in Seq(Piece) /\ Len(Whole(m)) = 1
           /\ Whole(m)[1] = [of |-> m, all |-> TRUE]
           /\ Halves(m) \in Seq(Piece) /\ Len(Halves(m)) = 2
           /\ Halves(m)[1].all = FALSE
BY DEF Whole, Halves, Piece

LEMMA PieceTypes ==
    ASSUME NEW m \in Int, NEW p \in Pieces(m)
    PROVE  p \in Seq(Piece) /\ Len(p) >= 1
<1>1. CASE p = Whole(m)
  <2>1. Len(p) = 1
    BY <1>1, PieceFacts
  <2>2. Len(p) >= 1
    BY <2>1
  <2>. QED BY <1>1, <2>2, PieceFacts
<1>2. CASE p = Halves(m)
  <2>1. Len(p) = 2
    BY <1>2, PieceFacts
  <2>2. Len(p) >= 1
    BY <2>1
  <2>. QED BY <1>2, <2>2, PieceFacts
<1>. QED BY <1>1, <1>2 DEF Pieces

LEMMA Joined ==
    ASSUME NEW S, NEW s \in Seq(S), NEW t \in Seq(S)
    PROVE  /\ s \o t \in Seq(S) /\ Len(s \o t) = Len(s) + Len(t)
           /\ \A k \in 1..Len(s) : (s \o t)[k] = s[k]
           /\ \A k \in 1..Len(t) : (s \o t)[Len(s) + k] = t[k]
BY ConcatProperties

(* A read that takes one whole message leaves what came after it. *)
LEMMA ReadOnly ==
    ASSUME NEW m \in Int, NEW in \in Seq(Piece), NEW log, One(m, in, log), Len(in) >= 1, in[1].all
    PROVE  in = Whole(m) /\ log = <<>> /\ SubSeq(in, 2, Len(in)) = <<>>
<1>1. in # <<>>
  OBVIOUS
<1>2. in \in Pieces(m) /\ log = <<>>
  BY <1>1 DEF One
<1>3. in = Whole(m)
  BY <1>2, PieceFacts DEF Pieces
<1>4. SubSeq(in, 2, 1) = <<>>
  OBVIOUS
<1>. QED BY <1>2, <1>3, <1>4, PieceFacts

LEMMA ReadFirst ==
    ASSUME NEW a \in Int, NEW b \in Int, NEW in \in Seq(Piece), NEW log, Two(a, b, in, log),
           Len(in) >= 1, in[1].all
    PROVE  One(b, SubSeq(in, 2, Len(in)), log)
<1>1. in # <<>>
  OBVIOUS
<1>2. CASE in \in Pieces(a) /\ log = <<b>>
  <2>1. in = Whole(a)
    BY <1>2, PieceFacts DEF Pieces
  <2>2. SubSeq(in, 2, 1) = <<>>
    OBVIOUS
  <2>. QED BY <1>2, <2>1, <2>2, PieceFacts DEF One
<1>3. CASE (\E p \in Pieces(a), q \in Pieces(b) : in = p \o q) /\ log = <<>>
  <2>1. PICK p \in Pieces(a), q \in Pieces(b) : in = p \o q
    BY <1>3
  <2>2. p \in Seq(Piece) /\ q \in Seq(Piece) /\ Len(p) >= 1
    BY PieceTypes
  <2>3. in[1] = p[1]
    BY <2>1, <2>2, Joined
  <2>4. p = Whole(a) /\ Len(p) = 1
    BY <2>3, PieceFacts DEF Pieces
  <2>5. /\ Len(in) = 1 + Len(q) /\ Len(q) \in Nat
        /\ \A k \in 1..Len(q) : in[1 + k] = q[k]
    <3>1. Len(p \o q) = Len(p) + Len(q) /\ \A k \in 1..Len(q) : (p \o q)[Len(p) + k] = q[k]
      BY <2>2, Joined
    <3>. QED BY <2>1, <2>2, <2>4, <3>1
  <2>. DEFINE rest == SubSeq(in, 2, Len(in))
  <2>6. rest \in Seq(Piece) /\ Len(rest) = Len(q) /\ \A k \in 1..Len(q) : rest[k] = in[1 + k]
    <3>1. Len(in) \in Nat /\ Len(in) >= 1
      BY <2>5
    <3>2. rest \in Seq(Piece)
      BY <3>1
    <3>3. Len(rest) = Len(q)
      BY <2>5, <3>1
    <3>4. \A k \in 1..Len(q) : rest[k] = in[1 + k]
      BY <2>5, <3>1
    <3>. QED BY <3>2, <3>3, <3>4
  <2>. HIDE DEF rest
  <2>7. rest = q
    BY <2>2, <2>5, <2>6, SeqEqual
  <2>. QED BY <1>3, <2>7 DEF One, rest
<1>. QED BY <1>1, <1>2, <1>3 DEF Two

(* The next message arrives. *)
LEMMA ArrivedOne ==
    ASSUME NEW m \in Int, NEW in \in Seq(Piece), NEW log \in Seq(Int), One(m, in, log), log # <<>>,
           NEW piece \in Pieces(Head(log))
    PROVE  One(m, in \o piece, Tail(log))
<1>1. in = <<>> /\ log = <<m>>
  BY DEF One
<1>2. Head(log) = m /\ Tail(log) = <<>>
  BY <1>1
<1>3. piece \in Pieces(m) /\ piece \in Seq(Piece)
  BY <1>2, PieceFacts DEF Pieces
<1>4. in \o piece = piece
  BY <1>1, <1>3
<1>. QED BY <1>2, <1>3, <1>4 DEF One

LEMMA ArrivedTwo ==
    ASSUME NEW a \in Int, NEW b \in Int, NEW in \in Seq(Piece), NEW log \in Seq(Int),
           Two(a, b, in, log), log # <<>>, NEW piece \in Pieces(Head(log))
    PROVE  Two(a, b, in \o piece, Tail(log))
<1>1. CASE in = <<>> /\ log = <<a, b>>
  <2>1. Head(log) = a /\ Tail(log) = <<b>>
    BY <1>1
  <2>2. piece \in Pieces(a) /\ piece \in Seq(Piece)
    BY <2>1, PieceFacts DEF Pieces
  <2>3. in \o piece = piece
    BY <1>1, <2>2
  <2>. QED BY <2>1, <2>2, <2>3 DEF Two
<1>2. CASE in \in Pieces(a) /\ log = <<b>>
  <2>1. Head(log) = b /\ Tail(log) = <<>>
    BY <1>2
  <2>. QED BY <1>2, <2>1 DEF Two
<1>. QED BY <1>1, <1>2 DEF Two

-----------------------------------------------------------------------------
(* The inductive invariant of CdcClient, step by step. *)

LEMMA InitClient == Init => ClientInv
<1>. SUFFICES ASSUME Init PROVE ClientInv
  OBVIOUS
<1>. USE DEF Init
<1>1. ClientTypes
  BY DEF ClientTypes, Before
<1>2. Starting /\ Rising
  BY DEF Starting, Rising, Before
<1>3. InTurn
  BY DEF InTurn, UnderWay
<1>. QED BY <1>1, <1>2, <1>3 DEF ClientInv

(* A read that does not disturb takes one whole message. *)
LEMMA Taken ==
    ASSUME ClientTypes, NEW n \in 0..Len(inbox), Takes(n)
    PROVE  /\ inbox' = SubSeq(inbox, n + 1, Len(inbox)) /\ inbox' \in Seq(Piece)
           /\ ~disturbed' => ~disturbed /\ n = 1 /\ Len(inbox) >= 1 /\ inbox[1].all
<1>1. inbox' = SubSeq(inbox, n + 1, Len(inbox)) /\ disturbed' = (disturbed \/ n # 1 \/ ~inbox[1].all)
  BY DEF Takes
<1>2. inbox \in Seq(Piece) /\ Len(inbox) \in Nat
  BY DEF ClientTypes
<1>3. inbox' \in Seq(Piece)
  BY <1>1, <1>2
<1>4. ~disturbed' => ~disturbed /\ n = 1 /\ inbox[1].all
  BY <1>1, Zenon
<1>5. n = 1 => Len(inbox) >= 1
  BY <1>2
<1>. QED BY <1>1, <1>3, <1>4, <1>5

(* Steps of cdc_com before it reads rows. *)
LEMMA Connecting ==
    ASSUME ClientInv, connect \/ recv_auth \/ recv_reg
    PROVE  ClientInv'
<1>. USE DEF ClientInv
<1>1. /\ UNCHANGED <<ignore_first, inserted_val, insert_val, str, exit_flag, thread, table, wrong, result>>
      /\ pc \in Before /\ pc' \in Before \cup {"wait"}
      /\ pc' \in Before => pc' # "connect"
  BY DEF connect, recv_auth, recv_reg, Before
<1>2. inbox' \in Seq(Piece) /\ binlog' \in Seq(Int)
  <2>1. CASE connect
    BY <2>1 DEF connect, ClientTypes, Ok
  <2>2. CASE recv_auth
    <3>1. PICK n \in 0..Len(inbox) : Takes(n)
      BY <2>2 DEF recv_auth
    <3>2. inbox' \in Seq(Piece)
      BY <3>1, Taken
    <3>. QED BY <2>2, <3>2 DEF recv_auth, ClientTypes, Ok
  <2>3. CASE recv_reg
    <3>1. PICK n \in 0..Len(inbox) : Takes(n)
      BY <2>3 DEF recv_reg
    <3>2. inbox' \in Seq(Piece)
      BY <3>1, Taken
    <3>3. <<Schema, FirstRow>> \in Seq(Int)
      BY DEF Schema, FirstRow
    <3>4. binlog' \in Seq(Int)
      BY <2>3, <3>3 DEF recv_reg, ClientTypes
    <3>. QED BY <3>2, <3>4
  <2>. QED BY <2>1, <2>2, <2>3
<1>3. ClientTypes'
  BY <1>1, <1>2 DEF ClientTypes
<1>4. Starting' /\ Rising'
  BY <1>1 DEF Starting, Rising, Before
<1>5. IdleThread' = IdleThread
  BY <1>1 DEF IdleThread
<1>6. ~disturbed' => UnderWay' /\ ~disturbed
  <2>1. CASE connect
    <3>1. pc = "connect" /\ pc' = "auth" /\ binlog' = Append(binlog, Ok) /\ UNCHANGED <<inbox, disturbed>>
      BY <2>1 DEF connect
    <3>2. ~disturbed => inbox = <<>> /\ binlog = <<>>
      BY <3>1 DEF InTurn, UnderWay
    <3>3. ~disturbed => One(Ok, inbox', binlog')
      BY <3>1, <3>2 DEF One
    <3>. QED BY <3>1, <3>3 DEF UnderWay
  <2>2. CASE recv_auth
    <3>1. pc = "auth" /\ pc' = "registered" /\ binlog' = Append(binlog, Ok)
      BY <2>2 DEF recv_auth
    <3>2. PICK n \in 0..Len(inbox) : Takes(n)
      BY <2>2 DEF recv_auth
    <3>. SUFFICES ASSUME ~disturbed' PROVE UnderWay' /\ ~disturbed
      OBVIOUS
    <3>3. ~disturbed /\ n = 1 /\ Len(inbox) >= 1 /\ inbox[1].all /\ inbox' = SubSeq(inbox, 1 + 1, Len(inbox))
      BY <3>2, Taken
    <3>4. One(Ok, inbox, binlog)
      BY <3>1, <3>3 DEF InTurn, UnderWay
    <3>5. binlog = <<>> /\ inbox' = <<>>
      BY <3>3, <3>4, ReadOnly DEF ClientTypes, Ok
    <3>6. One(Ok, inbox', binlog')
      BY <3>1, <3>5 DEF One
    <3>. QED BY <3>1, <3>3, <3>6 DEF UnderWay
  <2>3. CASE recv_reg
    <3>1. pc = "registered" /\ pc' = "wait" /\ binlog' = binlog \o <<Schema, FirstRow>>
      BY <2>3 DEF recv_reg
    <3>2. PICK n \in 0..Len(inbox) : Takes(n)
      BY <2>3 DEF recv_reg
    <3>. SUFFICES ASSUME ~disturbed' PROVE UnderWay' /\ ~disturbed
      OBVIOUS
    <3>3. ~disturbed /\ n = 1 /\ Len(inbox) >= 1 /\ inbox[1].all /\ inbox' = SubSeq(inbox, 1 + 1, Len(inbox))
      BY <3>2, Taken
    <3>4. One(Ok, inbox, binlog)
      BY <3>1, <3>3 DEF InTurn, UnderWay
    <3>5. binlog = <<>> /\ inbox' = <<>>
      BY <3>3, <3>4, ReadOnly DEF ClientTypes, Ok
    <3>6. binlog' = <<Schema, FirstRow>>
      BY <3>1, <3>5
    <3>7. Two(Schema, FirstRow, inbox', binlog')
      BY <3>5, <3>6 DEF Two
    <3>8. ignore_first' = 2
      BY <1>1 DEF Starting
    <3>. QED BY <3>1, <3>3, <3>7, <3>8 DEF UnderWay
  <2>. QED BY <2>1, <2>2, <2>3
<1>7. InTurn'
  BY <1>1, <1>5, <1>6 DEF InTurn
<1>. QED BY <1>3, <1>4, <1>7

(* cdc_com returns, and main joins the thread. *)
LEMMA Returning ==
    ASSUME ClientInv, cdc_com_fails \/ epoll_fails \/ cdc_com_returns \/ pthread_join
    PROVE  ClientInv'
<1>. USE DEF ClientInv
<1>1. /\ UNCHANGED <<ignore_first, inserted_val, insert_val, str, thread, table, inbox, binlog,
                      disturbed, wrong>>
      /\ pc' \in {"join", "ended"} /\ result' \in {"failed", "passed", result}
  BY DEF cdc_com_fails, epoll_fails, cdc_com_returns, pthread_join, network
<1>2. ClientTypes' /\ Starting' /\ Rising'
  BY <1>1 DEF ClientTypes, Starting, Rising, Before
<1>3. UnderWay' /\ IdleThread' = IdleThread
  BY <1>1 DEF UnderWay, IdleThread
<1>4. InTurn'
  BY <1>1, <1>3 DEF InTurn
<1>. QED BY <1>2, <1>4

(* One round of the loop of cdc_com. *)
LEMMA Reading == ClientInv /\ read_sc => ClientInv'
<1>. SUFFICES ASSUME ClientInv, read_sc PROVE ClientInv'
  OBVIOUS
<1>. USE CdcAssumption DEF ClientInv
<1>1. pc = "wait" /\ UNCHANGED <<pc, str, exit_flag, thread, binlog, table, result>>
  BY DEF read_sc
<1>2. PICK n \in 0..Len(inbox) : Takes(n) /\ (Skips \/ Compares(n))
  BY DEF read_sc
<1>3. /\ inbox' = SubSeq(inbox, n + 1, Len(inbox)) /\ inbox' \in Seq(Piece)
      /\ ~disturbed' => ~disturbed /\ n = 1 /\ Len(inbox) >= 1 /\ inbox[1].all
  BY <1>2, Taken
<1>4. CASE Skips /\ ignore_first = 2
  <2>1. UNCHANGED <<inserted_val, insert_val, wrong>> /\ ignore_first' = 1
    BY <1>4 DEF Skips
  <2>2. ClientTypes' /\ Starting' /\ Rising'
    BY <1>1, <1>3, <1>4, <2>1 DEF ClientTypes, Starting, Rising, Before
  <2>3. ~disturbed' => UnderWay' /\ ~disturbed
    <3>. SUFFICES ASSUME ~disturbed' PROVE UnderWay' /\ ~disturbed
      OBVIOUS
    <3>1. Two(Schema, FirstRow, inbox, binlog)
      BY <1>1, <1>3, <1>4 DEF InTurn, UnderWay
    <3>2. One(FirstRow, SubSeq(inbox, 2, Len(inbox)), binlog)
      BY <1>3, <3>1, ReadFirst DEF ClientTypes, Schema, FirstRow
    <3>3. One(FirstRow, inbox', binlog')
      BY <1>1, <1>3, <3>2
    <3>. QED BY <1>1, <1>3, <2>1, <3>3 DEF UnderWay
  <2>4. IdleThread' = IdleThread
    BY <1>1, <2>1 DEF IdleThread
  <2>5. InTurn'
    BY <1>1, <2>1, <2>3, <2>4 DEF InTurn
  <2>. QED BY <2>2, <2>5
<1>5. CASE Skips /\ ignore_first = 1
  <2>1. UNCHANGED wrong /\ inserted_val' = StartVal /\ insert_val' = StartVal /\ ignore_first' = 0
    BY <1>5 DEF Skips
  <2>2. table = <<>> /\ thread = "poll" /\ Len(table) = 0
    BY <1>1, <1>5 DEF Starting, Before
  <2>3. ClientTypes'
    BY <1>1, <1>3, <2>1 DEF ClientTypes
  <2>4. Starting' /\ Rising'
    BY <1>1, <1>5, <2>1, <2>2 DEF Starting, Rising, Before
  <2>5. ~IdleThread'
    BY <2>1 DEF IdleThread
  <2>6. ~disturbed' => UnderWay' /\ ~disturbed
    <3>. SUFFICES ASSUME ~disturbed' PROVE UnderWay' /\ ~disturbed
      OBVIOUS
    <3>1. One(FirstRow, inbox, binlog)
      BY <1>1, <1>3, <1>5 DEF InTurn, UnderWay
    <3>2. binlog = <<>> /\ SubSeq(inbox, 2, Len(inbox)) = <<>>
      BY <1>3, <3>1, ReadOnly DEF ClientTypes, FirstRow
    <3>3. inbox' = <<>> /\ binlog' = <<>>
      BY <1>1, <1>3, <3>2
    <3>. QED BY <1>1, <1>3, <2>1, <2>5, <3>3 DEF UnderWay
  <2>7. InTurn'
    BY <1>1, <2>1, <2>2, <2>5, <2>6 DEF InTurn
  <2>. QED BY <2>3, <2>4, <2>7
<1>6. CASE Compares(n)
  <2>1. /\ ignore_first = 0 /\ ignore_first' = 0
        /\ inserted_val' = inserted_val + 1 /\ insert_val' = inserted_val + 1
    BY <1>6 DEF Compares
  <2>2. ClientTypes'
    BY <1>1, <1>3, <2>1 DEF ClientTypes
  <2>3. Starting'
    BY <1>1, <2>1 DEF Starting, Before, ClientTypes
  <2>4. Rising'
    <3>1. /\ Len(table') = Len(table) /\ \A k \in 1..Len(table) : table'[k] = table[k] /\ table[k] \in Nat
          /\ inserted_val \in Nat /\ str \in Nat
      BY <1>1 DEF ClientTypes
    <3>2. \A k \in 1..Len(table) : table[k] < inserted_val + 1
      BY <3>1 DEF Rising
    <3>3. thread \in {"formatted", "cleared"} =>
              str < inserted_val + 1 /\ \A k \in 1..Len(table) : table[k] < str
      BY <3>1 DEF Rising
    <3>. QED BY <1>1, <2>1, <3>1, <3>2, <3>3 DEF Rising
  <2>5. ~IdleThread'
    BY <2>1 DEF IdleThread, ClientTypes
  <2>6. ASSUME ~disturbed'
        PROVE  /\ UnderWay' /\ ~wrong'
               /\ ~disturbed /\ thread = "poll" /\ inserted_val' = StartVal + Len(table)
    <3>1. ~disturbed /\ n = 1 /\ Len(inbox) >= 1 /\ inbox[1].all
      BY <1>3, <2>6
    <3>2. IdleThread
      <4>1. inbox # <<>>
        BY <3>1
      <4>. QED BY <1>1, <2>1, <3>1, <4>1 DEF InTurn, UnderWay
    <3>3. One(inserted_val, inbox, binlog)
      BY <1>1, <2>1, <3>1, <3>2 DEF InTurn, UnderWay
    <3>4. inserted_val \in Int /\ inserted_val >= StartVal /\ inbox \in Seq(Piece)
      BY <2>1 DEF ClientTypes, Starting
    <3>5. inbox = Whole(inserted_val) /\ binlog = <<>> /\ SubSeq(inbox, 2, Len(inbox)) = <<>>
      BY <3>1, <3>3, <3>4, ReadOnly
    <3>6. inbox' = <<>> /\ binlog' = <<>>
      BY <1>1, <1>3, <3>1, <3>5
    <3>7. UnderWay'
      BY <1>1, <2>1, <2>5, <3>6 DEF UnderWay
    <3>8. inbox[1] = [of |-> inserted_val, all |-> TRUE]
      BY <3>4, <3>5, PieceFacts
    <3>9. RightRow(n)
      BY <3>1, <3>8 DEF RightRow
    <3>10. ~Unparsed(n)
      <4>1. inserted_val # Ok /\ inserted_val # Schema
        BY <3>4 DEF Ok, Schema
      <4>2. inbox[1].of = inserted_val
        BY <3>8
      <4>. QED BY <3>1, <4>1, <4>2 DEF Unparsed
    <3>11. ~wrong'
      <4>1. PICK right \in get_x_fl_from_json(n) : wrong' = (wrong \/ ~right)
        BY <1>6 DEF Compares
      <4>2. right = RightRow(n)
        BY <3>10 DEF get_x_fl_from_json
      <4>3. ~wrong
        BY <3>1 DEF InTurn
      <4>. QED BY <3>9, <4>1, <4>2, <4>3, Zenon
    <3>12. thread = "poll"
      BY <1>1, <3>2 DEF IdleThread, Starting, Before
    <3>13. inserted_val = StartVal + Len(table) - 1 /\ Len(table) \in Nat
      BY <2>1, <3>1, <3>2 DEF InTurn, ClientTypes
    <3>14. inserted_val' = StartVal + Len(table)
      BY <2>1, <3>13
    <3>. QED BY <3>1, <3>7, <3>11, <3>12, <3>14
  <2>7. InTurn'
    <3>1. Len(table) \in Nat
      BY DEF ClientTypes
    <3>. QED BY <1>1, <2>5, <2>6, <3>1 DEF InTurn
  <2>. QED BY <2>2, <2>3, <2>4, <2>7
<1>. QED BY <1>2, <1>4, <1>5, <1>6 DEF Skips, ClientTypes

(* The steps of query_thread. *)
LEMMA Inserting == ClientInv /\ query_thread => ClientInv'
<1>. SUFFICES ASSUME ClientInv, query_thread PROVE ClientInv'
  OBVIOUS
<1>. USE CdcAssumption DEF ClientInv
<1>1. CASE sprintf
  <2>1. /\ thread = "poll" /\ thread' = "formatted" /\ insert_val # 0 /\ str' = insert_val
        /\ UNCHANGED <<pc, ignore_first, inserted_val, wrong, result, insert_val, exit_flag, inbox,
                       binlog, table, disturbed>>
    BY <1>1 DEF sprintf, reader, network
  <2>2. insert_val = inserted_val
    BY <2>1 DEF Rising
  <2>3. ClientTypes' /\ Starting'
    BY <2>1 DEF ClientTypes, Starting, Before
  <2>4. Rising'
    BY <2>1, <2>2 DEF Rising, ClientTypes
  <2>5. ~IdleThread /\ ~IdleThread'
    BY <2>1 DEF IdleThread
  <2>6. UnderWay => UnderWay'
    BY <2>1, <2>5 DEF UnderWay
  <2>7. InTurn'
    BY <2>1, <2>2, <2>5, <2>6 DEF InTurn
  <2>. QED BY <2>3, <2>4, <2>7
<1>2. CASE clear_insert_val
  <2>1. /\ thread = "formatted" /\ thread' = "cleared" /\ insert_val' = 0
        /\ UNCHANGED <<pc, ignore_first, inserted_val, wrong, result, str, exit_flag, inbox,
                       binlog, table, disturbed>>
    BY <1>2 DEF clear_insert_val, reader, network
  <2>2. ClientTypes' /\ Starting'
    BY <2>1 DEF ClientTypes, Starting, Before
  <2>3. Rising'
    BY <2>1 DEF Rising
  <2>4. ~IdleThread /\ ~IdleThread'
    BY <2>1 DEF IdleThread
  <2>5. UnderWay => UnderWay'
    BY <2>1, <2>4 DEF UnderWay
  <2>6. InTurn'
    BY <2>1, <2>4, <2>5 DEF InTurn
  <2>. QED BY <2>2, <2>3, <2>6
<1>3. CASE execute_query
  <2>1. /\ thread = "cleared" /\ thread' = "poll"
        /\ UNCHANGED <<pc, ignore_first, inserted_val, wrong, result, str, insert_val, exit_flag, inbox>>
    BY <1>3 DEF execute_query, reader
  <2>2. CASE table' = Append(table, str) /\ binlog' = Append(binlog, str) /\ UNCHANGED disturbed
    <3>1. /\ table' \in Seq(Nat) /\ binlog' \in Seq(Int)
          /\ Len(table') = Len(table) + 1 /\ Len(table) \in Nat
          /\ \A k \in 1..Len(table) : table'[k] = table[k] /\ table[k] \in Nat
          /\ table'[Len(table) + 1] = str /\ str \in Nat
      BY <2>2 DEF ClientTypes
    <3>2. ClientTypes'
      BY <2>1, <3>1 DEF ClientTypes
    <3>3. ignore_first = 0
      BY <2>1 DEF Starting, ClientTypes
    <3>4. Starting'
      BY <2>1, <3>3 DEF Starting, Before
    <3>5. Rising'
      <4>1. \A k \in 1..Len(table) : table[k] <= inserted_val
        BY DEF Rising
      <4>2. str <= inserted_val /\ \A k \in 1..Len(table) : table[k] < str
        BY <2>1 DEF Rising
      <4>3. insert_val # 0 => str < insert_val /\ \A k \in 1..Len(table) : table[k] < insert_val
        BY <2>1 DEF Rising
      <4>4. ASSUME NEW k \in 1..Len(table')
            PROVE  table'[k] <= inserted_val /\ (insert_val # 0 => table'[k] < insert_val)
        <5>1. CASE k = Len(table) + 1
          BY <3>1, <4>2, <4>3, <5>1
        <5>2. CASE k # Len(table) + 1
          <6>1. k \in 1..Len(table)
            BY <3>1, <5>2
          <6>. QED BY <3>1, <4>1, <4>3, <6>1
        <5>. QED BY <5>1, <5>2
      <4>. QED BY <2>1, <4>4 DEF Rising
    <3>6. InTurn'
      <4>. SUFFICES ASSUME ~disturbed PROVE InTurn'
        BY <2>2 DEF InTurn
      <4>1. insert_val = 0 /\ str = inserted_val /\ UnderWay /\ ~IdleThread /\ IdleThread'
        BY <2>1 DEF InTurn, IdleThread
      <4>2. inserted_val = StartVal + Len(table)
        BY <3>1, <3>3, <4>1 DEF InTurn
      <4>3. pc = "wait" => One(inserted_val, inbox, <<inserted_val>>) /\ binlog' = <<inserted_val>>
        BY <2>2, <3>3, <4>1 DEF UnderWay, One
      <4>4. pc \notin Before
        BY <3>3 DEF Starting
      <4>5. UnderWay'
        BY <2>1, <3>3, <4>1, <4>3, <4>4 DEF UnderWay, Before
      <4>6. \A k \in 1..Len(table') : table'[k] = StartVal + k - 1
        <5>. SUFFICES ASSUME NEW k \in 1..Len(table') PROVE table'[k] = StartVal + k - 1
          OBVIOUS
        <5>1. CASE k = Len(table) + 1
          BY <3>1, <4>1, <4>2, <5>1
        <5>2. CASE k # Len(table) + 1
          <6>1. k \in 1..Len(table)
            BY <3>1, <5>2
          <6>. QED BY <3>1, <6>1 DEF InTurn
        <5>. QED BY <5>1, <5>2
      <4>7. inserted_val' = StartVal + Len(table') - 1
        BY <2>1, <3>1, <4>2
      <4>. QED BY <2>1, <2>2, <4>1, <4>5, <4>6, <4>7 DEF InTurn
    <3>. QED BY <3>2, <3>4, <3>5, <3>6
  <2>3. CASE disturbed' = TRUE /\ UNCHANGED <<table, binlog>>
    <3>1. ClientTypes' /\ Starting'
      BY <2>1, <2>3 DEF ClientTypes, Starting, Before
    <3>2. Rising'
      BY <2>1, <2>3 DEF Rising
    <3>3. InTurn'
      BY <2>3 DEF InTurn
    <3>. QED BY <3>1, <3>2, <3>3
  <2>. QED BY <1>3, <2>2, <2>3 DEF execute_query
<1>4. CASE query_thread_ends
  <2>1. /\ thread = "poll" /\ thread' = "ended" /\ exit_flag
        /\ UNCHANGED <<pc, ignore_first, inserted_val, wrong, result, str, insert_val, exit_flag, inbox,
                       binlog, table, disturbed>>
    BY <1>4 DEF query_thread_ends, reader, network
  <2>2. pc \in {"join", "ended"}
    BY <2>1 DEF Starting, ClientTypes
  <2>3. ClientTypes' /\ Starting'
    BY <2>1, <2>2 DEF ClientTypes, Starting, Before
  <2>4. Rising'
    BY <2>1 DEF Rising
  <2>5. IdleThread' = IdleThread
    BY <2>1 DEF IdleThread
  <2>6. UnderWay'
    BY <2>1, <2>2 DEF UnderWay
  <2>7. InTurn'
    BY <2>1, <2>5, <2>6 DEF InTurn
  <2>. QED BY <2>3, <2>4, <2>7
<1>. QED BY <1>1, <1>2, <1>3, <1>4 DEF query_thread

(* A message arrives, whole or in two pieces. *)
LEMMA Arriving == ClientInv /\ Arrive => ClientInv'
<1>. SUFFICES ASSUME ClientInv, Arrive PROVE ClientInv'
  OBVIOUS
<1>. USE DEF ClientInv
<1>1. /\ binlog # <<>> /\ binlog' = Tail(binlog)
      /\ UNCHANGED <<pc, ignore_first, inserted_val, wrong, result, insert_val, str, exit_flag, thread,
                     table, disturbed>>
  BY DEF Arrive, reader
<1>2. PICK piece \in Pieces(Head(binlog)) : inbox' = inbox \o piece
  BY DEF Arrive, Pieces
<1>3. Head(binlog) \in Int /\ binlog \in Seq(Int) /\ binlog' \in Seq(Int) /\ inbox \in Seq(Piece)
  BY <1>1 DEF ClientTypes
<1>4. inbox' \in Seq(Piece)
  BY <1>2, <1>3, PieceTypes, Joined
<1>5. ClientTypes' /\ Starting' /\ Rising'
  BY <1>1, <1>3, <1>4 DEF ClientTypes, Starting, Rising
<1>6. IdleThread' = IdleThread
  BY <1>1 DEF IdleThread
<1>7. \A m \in Int : One(m, inbox, binlog) => One(m, inbox', binlog')
  BY <1>1, <1>2, <1>3, ArrivedOne
<1>8. \A a, b \in Int : Two(a, b, inbox, binlog) => Two(a, b, inbox', binlog')
  BY <1>1, <1>2, <1>3, ArrivedTwo
<1>9. Ok \in Int /\ Schema \in Int /\ FirstRow \in Int /\ inserted_val \in Int
  BY DEF Ok, Schema, FirstRow, ClientTypes
<1>10. UnderWay => UnderWay'
  BY <1>1, <1>6, <1>7, <1>8, <1>9 DEF UnderWay
<1>11. InTurn'
  BY <1>1, <1>6, <1>10 DEF InTurn
<1>. QED BY <1>5, <1>11

(* Nothing times out as long as nothing was disturbed. *)
LEMMA TimingOut == ClientInv /\ timeout => ClientInv'
<1>. SUFFICES ASSUME ClientInv, timeout PROVE ClientInv'
  OBVIOUS
<1>. USE DEF ClientInv
<1>1. /\ pc = "wait" /\ inbox = <<>> /\ binlog = <<>> /\ insert_val = 0 /\ thread = "poll"
      /\ pc' = "ended" /\ thread' = "ended"
      /\ UNCHANGED <<ignore_first, inserted_val, insert_val, str, exit_flag, inbox, binlog, table,
                     disturbed, wrong>>
  BY DEF timeout, Silence, network
<1>2. disturbed
  <2>. SUFFICES ASSUME ~disturbed PROVE FALSE
    OBVIOUS
  <2>1. UnderWay /\ IdleThread
    BY <1>1 DEF InTurn, IdleThread
  <2>2. ASSUME NEW m \in Int PROVE ~One(m, inbox, binlog)
    <3>1. Whole(m) # <<>> /\ Halves(m) # <<>>
      BY DEF Whole, Halves
    <3>. QED BY <1>1, <3>1 DEF One, Pieces
  <2>3. ~Two(Schema, FirstRow, inbox, binlog)
    <3>1. ASSUME NEW p \in Pieces(Schema), NEW q \in Pieces(FirstRow) PROVE p \o q # <<>>
      <4>1. p \in Seq(Piece) /\ Len(p) >= 1 /\ q \in Seq(Piece)
        BY PieceTypes DEF Schema, FirstRow
      <4>. QED BY <4>1
    <3>. QED BY <1>1, <3>1 DEF Two
  <2>4. FirstRow \in Int /\ inserted_val \in Int /\ ignore_first \in {0, 1, 2}
    BY DEF FirstRow, ClientTypes
  <2>. QED BY <1>1, <2>1, <2>2, <2>3, <2>4 DEF UnderWay
<1>3. ClientTypes' /\ Starting' /\ Rising'
  BY <1>1 DEF ClientTypes, Starting, Rising, Before
<1>4. InTurn'
  BY <1>1, <1>2 DEF InTurn
<1>. QED BY <1>3, <1>4

LEMMA NextClient == ClientInv /\ [Next]_vars => ClientInv'
<1>. SUFFICES ASSUME ClientInv, [Next]_vars PROVE ClientInv'
  OBVIOUS
<1>1. CASE cdc_com
  BY <1>1, Connecting, Returning, Reading DEF cdc_com
<1>2. CASE query_thread
  BY <1>2, Inserting
<1>3. CASE Arrive
  BY <1>3, Arriving
<1>4. CASE timeout
  BY <1>4, TimingOut
<1>5. CASE Breaks \/ UNCHANGED vars
  <2>1. UNCHANGED <<pc, ignore_first, inserted_val, wrong, result, insert_val, str, exit_flag, thread,
                    inbox, binlog, table, disturbed>>
    BY <1>5 DEF Breaks, vars, reader, network
  <2>. QED BY <2>1 DEF ClientInv, ClientTypes, Starting, Rising, InTurn, UnderWay, IdleThread
<1>. QED BY <1>1, <1>2, <1>3, <1>4, <1>5 DEF Next, Terminated

(* The inductive invariant of CdcClient. *)
THEOREM ClientInvariant == Spec => []ClientInv
<1>. QED BY InitClient, NextClient, PTL DEF Spec

(* Only query_thread changes the table, by a value above all that it holds. *)
LEMMA TableRises == ClientInv /\ InsertedOnce /\ [Next]_vars => InsertedOnce'
<1>. SUFFICES ASSUME ClientInv, InsertedOnce, [Next]_vars PROVE InsertedOnce'
  OBVIOUS
<1>1. CASE UNCHANGED table
  BY <1>1 DEF InsertedOnce
<1>2. CASE thread = "cleared" /\ table' = Append(table, str)
  <2>1. /\ Len(table') = Len(table) + 1 /\ Len(table) \in Nat
        /\ \A k \in 1..Len(table) : table'[k] = table[k]
        /\ table'[Len(table) + 1] = str
    BY <1>2 DEF ClientInv, ClientTypes
  <2>2. \A k \in 1..Len(table) : table[k] < str
    BY <1>2 DEF ClientInv, Rising
  <2>. SUFFICES ASSUME NEW k \in 2..Len(table') PROVE table'[k - 1] < table'[k]
    BY DEF InsertedOnce
  <2>3. k - 1 \in 1..Len(table)
    BY <2>1
  <2>4. CASE k = Len(table) + 1
    BY <2>1, <2>2, <2>3, <2>4
  <2>5. CASE k # Len(table) + 1
    <3>1. k \in 2..Len(table) /\ k \in 1..Len(table)
      BY <2>1, <2>5
    <3>2. table[k - 1] < table[k]
      BY <3>1 DEF InsertedOnce
    <3>. QED BY <2>1, <2>3, <3>1, <3>2
  <2>. QED BY <2>4, <2>5
<1>. QED BY <1>1, <1>2
         DEF Next, cdc_com, query_thread, connect, recv_auth, recv_reg, cdc_com_fails, read_sc,
             epoll_fails, cdc_com_returns, pthread_join, sprintf, clear_insert_val, execute_query,
             query_thread_ends, Arrive, Breaks, timeout, Terminated, vars

(* However the pieces arrive, the connection breaks and the two threads    *)
(* interleave on insert_val (cdc_client.cpp:248), the values in the table  *)
(* rise: query_thread inserts no value twice.                              *)
THEOREM NoValueTwice == Spec => []InsertedOnce
<1>1. Init => InsertedOnce
  BY DEF Init, InsertedOnce
<1>. QED BY <1>1, TableRises, ClientInvariant, PTL DEF Spec

(* As long as every read has brought one whole message and no insert has   *)
(* failed, cdc_com and query_thread of cdc_client.cpp are in lock step: no *)
(* value is skipped, no comparison fails, and the test does not time out.  *)
THEOREM ThreadsInLockStep == Spec => []LockStep
<1>1. ClientInv => LockStep
  <2>. SUFFICES ASSUME ClientInv, ~disturbed PROVE LockStep
    BY DEF LockStep
  <2>. USE DEF ClientInv
  <2>1. ~wrong /\ result # "timed_out"
    BY DEF InTurn
  <2>2. table = [k \in 1..Len(table) |-> StartVal + k - 1]
    <3>1. table = [k \in 1..Len(table) |-> table[k]]
      BY DEF ClientTypes
    <3>2. \A k \in 1..Len(table) : table[k] = StartVal + k - 1
      BY DEF InTurn
    <3>. QED BY <3>1, <3>2
  <2>3. inserted_val # 0 => ignore_first = 0
    BY DEF Starting, ClientTypes
  <2>4. inserted_val # 0 => inserted_val = StartVal + Len(table) - (IF IdleThread THEN 1 ELSE 0)
    BY <2>3 DEF InTurn
  <2>. QED BY <2>1, <2>2, <2>4 DEF LockStep
<1>. QED BY <1>1, ClientInvariant, PTL

-----------------------------------------------------------------------------
Asking == {"next", "auth", "auth_answer", "register", "reg_answer", "request"}
Kinds  == {"OK", "K", "ERR", "schema", "row", "part"}
Wire   == [kind : Kinds, n : Nat]

ConnectorTypes ==
    /\ at \in Asking \cup {"schema", "row", "failed", "spin", "close", "done", "timed_out"}
    /\ i \in 1..Types /\ j \in 1..Values
    /\ stream \in Seq(Wire) /\ end \in {"up", "eof", "reset"} /\ trust \in 0..3
    /\ rval \in BOOLEAN /\ short \in BOOLEAN
    /\ at \in Asking \cup {"schema"} => j = 1
    /\ at = "done" => i = Types

(* Before the request the listener has sent no row.  As long as every       *)
(* answer was read whole and the connection is up, one answer is the most   *)
(* that can be waiting, and none is when the next message is written.       *)
NothingAhead ==
    /\ at \in Asking => trust # 3
    /\ ~short /\ end = "up" =>
          /\ at \in {"next", "auth", "register", "request"} => stream = <<>>
          /\ at \in {"auth_answer", "reg_answer"} => Len(stream) <= 1

(* After an accepted request the stream holds the schema and the rows from  *)
(* the first on, or the rows from the current value on; where it was cut,   *)
(* the beginning of a row.                                                  *)
SchemaAhead(s) ==
    \A k \in 1..Len(s) :
        IF k = 1 THEN s[k] = Line("schema")
                 ELSE s[k] \in {Row(k - 1), Line("part")}
ValuesAhead(s, v) ==
    \A k \in 1..Len(s) : s[k] \in {Row(v + k - 1), Line("part")}

RowsAhead ==
    ~short /\ trust = 3 =>
        /\ at = "schema" => SchemaAhead(stream)
        /\ at = "row" => ValuesAhead(stream, j)

(* While run_test has seen no mismatch, every value of the earlier types,   *)
(* and every earlier value of this type, was found equal to its row; one    *)
(* whose row could not be read was the last, or the stream is now at its    *)
(* end.                                                                     *)
Found(t, v) == <<t, v>> \in matched \/ (v = Values /\ <<t, v>> \in missed)

FoundSoFar ==
    \A v \in 1..(j - 1) :
        \/ <<i, v>> \in matched
        \/ v = j - 1 /\ <<i, v>> \in missed /\ stream = <<>> /\ end = "eof"

Compared ==
    rval =>
        /\ \A t \in 1..(i - 1), v \in 1..Values : Found(t, v)
        /\ at = "row" => FoundSoFar
        /\ at \in {"close", "done"} => \A v \in 1..Values : Found(i, v)

ConnectorInv == ConnectorTypes /\ NothingAhead /\ RowsAhead /\ Compared

(* The actions of the connector. *)
LEMMA ConnectorActions ==
    ASSUME [ConnectorNext]_connector
    PROVE  \/ createConnection
           \/ SendAuth \/ SendRegistration \/ SendRequest
           \/ ReadAnswer("auth_answer", "register")
           \/ ReadAnswer("reg_answer", "request")
           \/ ReadSchema \/ CompareRow
           \/ RequestFailed \/ closeConnection
           \/ ConnectionBreaks \/ timeout_thread
           \/ UNCHANGED connector
BY DEF ConnectorNext, run_test, doAuth, doRegistration,
       requestData, TestEnded

(* What a line of the listener and the answer to a request are. *)
LEMMA LineTypes ==
    /\ \A k \in Kinds : Line(k) \in Wire
    /\ \A n \in Nat : Row(n) \in Wire
BY DEF Line, Row, Wire, Kinds

LEMMA Prefixed ==
    ASSUME NEW S, NEW x \in S, NEW t \in Seq(S)
    PROVE  /\ <<x>> \o t \in Seq(S)
           /\ Len(<<x>> \o t) = 1 + Len(t)
           /\ \A k \in 1..(1 + Len(t)) : (<<x>> \o t)[k] = IF k = 1 THEN x ELSE t[k - 1]
<1>1. <<x>> \in Seq(S) /\ Len(<<x>>) = 1 /\ <<x>>[1] = x
  OBVIOUS
<1>2. /\ <<x>> \o t \in Seq(S)
      /\ Len(<<x>> \o t) = Len(<<x>>) + Len(t)
      /\ \A k \in 1..(Len(<<x>>) + Len(t)) :
            (<<x>> \o t)[k] = IF k <= Len(<<x>>) THEN <<x>>[k] ELSE t[k - Len(<<x>>)]
  BY <1>1, ConcatProperties
<1>. QED BY <1>1, <1>2

LEMMA Reply ==
    ASSUME NEW r, r = <<Line("schema")>> \o [n \in 1..Values |-> Row(n)]
    PROVE  r \in Seq(Wire) /\ SchemaAhead(r)
<1>. DEFINE rows == [n \in 1..Values |-> Row(n)]
<1>1. rows \in Seq(Wire) /\ Len(rows) = Values
  <2>1. rows \in [1..Values -> Wire]
    BY LineTypes
  <2>. QED BY <2>1, CdcConnectorAssumption
<1>2. \A n \in 1..Values : rows[n] = Row(n)
  OBVIOUS
<1>3. Line("schema") \in Wire
  BY LineTypes DEF Kinds
<1>4. /\ r \in Seq(Wire) /\ Len(r) = 1 + Values
      /\ \A k \in 1..(1 + Values) : r[k] = IF k = 1 THEN Line("schema") ELSE rows[k - 1]
  BY CdcConnectorAssumption, <1>1, <1>3, Prefixed
<1>. HIDE DEF rows
<1>5. \A k \in 1..(1 + Values) : k # 1 => r[k] = Row(k - 1)
  BY CdcConnectorAssumption, <1>2, <1>4
<1>. QED BY <1>4, <1>5 DEF SchemaAhead

(* What readRow leaves of the stream. *)
LEMMA AfterRead ==
    ASSUME stream \in Seq(Wire), NEW dest, readRow(dest)
    PROVE  /\ stream' \in Seq(Wire)
           /\ end' \in {end, "eof"}
           /\ \/ stream # <<>> /\ dest = Head(stream) /\ dest.kind # "part" /\ stream' = Tail(stream)
              \/ /\ stream' = <<>>
                 /\ dest \in {Line("empty"), Line("forever"), Line("error")}
           /\ dest = Line("error") => stream' = <<>> /\ end' = "eof" /\ end = "reset"
<1>1. CASE ~NoLine /\ dest = Head(stream) /\ stream' = Tail(stream) /\ UNCHANGED end
  <2>1. stream # <<>> /\ Head(stream).kind # "part"
    BY <1>1 DEF NoLine, Cut
  <2>2. dest \in Wire /\ stream' \in Seq(Wire)
    BY <1>1, <2>1
  <2>3. dest # Line("error")
    BY <2>2 DEF Wire, Kinds, Line
  <2>. QED BY <1>1, <2>1, <2>2, <2>3
<1>2. CASE ~(~NoLine /\ dest = Head(stream) /\ stream' = Tail(stream) /\ UNCHANGED end)
  <2>1. Line("error") \notin {Line("empty"), Line("forever")}
    BY DEF Line
  <2>2. stream' = <<>>
    BY <1>2 DEF readRow
  <2>. QED BY <1>2, <2>1, <2>2 DEF readRow
<1>. QED BY <1>1, <1>2

(* What is left of the stream when the connection breaks. *)
LEMMA CutShort ==
    ASSUME stream \in Seq(Wire), ConnectionBreaks
    PROVE  /\ stream' \in Seq(Wire) /\ Len(stream') <= Len(stream)
           /\ \A k \in 1..Len(stream') :
                 \/ stream'[k] = stream[k]
                 \/ stream'[k] = Line("part") /\ stream[k].kind = "row"
<1>1. PICK m \in 0..Len(stream) :
         \/ stream' = SubSeq(stream, 1, m)
         \/ /\ m < Len(stream) /\ stream[m + 1].kind = "row"
            /\ stream' = Append(SubSeq(stream, 1, m), Line("part"))
  BY DEF ConnectionBreaks
<1>2. /\ SubSeq(stream, 1, m) \in Seq(Wire) /\ Len(SubSeq(stream, 1, m)) = m
      /\ \A k \in 1..m : SubSeq(stream, 1, m)[k] = stream[k]
  <2>1. \A k \in 1..m : stream[k] \in Wire
    OBVIOUS
  <2>. QED BY <2>1, SubSeqProperties
<1>3. CASE stream' = SubSeq(stream, 1, m)
  BY <1>2, <1>3
<1>4. CASE /\ m < Len(stream) /\ stream[m + 1].kind = "row"
           /\ stream' = Append(SubSeq(stream, 1, m), Line("part"))
  <2>1. Line("part") \in Wire
    BY LineTypes DEF Kinds
  <2>2. /\ stream' \in Seq(Wire) /\ Len(stream') = m + 1
        /\ \A k \in 1..m : stream'[k] = stream[k]
        /\ stream'[m + 1] = Line("part")
    BY <1>2, <1>4, <2>1, AppendProperties
  <2>. QED BY <1>4, <2>2
<1>. QED BY <1>1, <1>3, <1>4

LEMMA WriteTypes ==
    ASSUME ConnectorTypes, NEW from, NEW to, NEW good \in Seq(Wire), NEW level \in 0..3,
           Write(from, to, good, level)
    PROVE  /\ at = from /\ at' \in {to, "failed"}
           /\ stream' \in Seq(Wire) /\ end' \in {"up", "eof", "reset"} /\ trust' \in {trust, level}
           /\ UNCHANGED script /\ UNCHANGED short
           /\ at' = to => Accepts(good, level) \/ (end' = "eof") \/ UNCHANGED server
<1>1. Line("ERR") \in Wire
  BY LineTypes DEF Kinds
<1>2. stream' \in {stream, stream \o good, Append(stream, Line("ERR"))}
  BY DEF Write, Accepts, Refuses, Unheard, server
<1>3. stream' \in Seq(Wire)
  <2>1. stream \in Seq(Wire)
    BY DEF ConnectorTypes
  <2>2. stream \o good \in Seq(Wire)
    BY <2>1, ConcatProperties
  <2>3. Append(stream, Line("ERR")) \in Seq(Wire)
    BY <1>1, <2>1, AppendProperties
  <2>. QED BY <1>2, <2>1, <2>2, <2>3
<1>. QED BY <1>3 DEF Write, Accepts, Refuses, Unheard,
                     server, ConnectorTypes

LEMMA AnswerTypes ==
    ASSUME stream \in Seq(Wire), short \in BOOLEAN, NEW from, NEW to, ReadAnswer(from, to)
    PROVE  /\ at = from /\ at' \in {to, "failed"}
           /\ stream' \in Seq(Wire) /\ short' \in BOOLEAN /\ end' \in {end, "eof"}
           /\ UNCHANGED script /\ UNCHANGED trust
           /\ short => short'
           /\ ~short' /\ end' = "up" /\ at' = to => stream # <<>> /\ stream' = Tail(stream)
<1>1. CASE stream # <<>>
  <2>1. PICK a \in Answers :
           /\ at' = (IF a.ok THEN to ELSE "failed")
           /\ stream' = a.left
           /\ short' = (short \/ a.short)
    BY <1>1 DEF ReadAnswer
  <2>2. Line("K") \in Wire /\ Tail(stream) \in Seq(Wire)
    BY <1>1, LineTypes DEF Kinds
  <2>. DEFINE ok   == Head(stream).kind = "OK"
              rest == Tail(stream)
              less == <<Line("K")>> \o rest
  <2>3. \/ a = [ok |-> ok, left |-> rest, short |-> FALSE]
        \/ a \in [ok : BOOLEAN, left : {less}, short : {TRUE}]
    BY DEF Answers
  <2>. HIDE DEF ok, less
  <2>4. \/ a.left = rest /\ a.short = FALSE
        \/ a.left = less /\ a.short = TRUE
    <3>. HIDE DEF rest
    <3>1. CASE a = [ok |-> ok, left |-> rest, short |-> FALSE]
      BY <3>1
    <3>2. CASE a \in [ok : BOOLEAN, left : {less}, short : {TRUE}]
      BY <3>2
    <3>. QED BY <2>3, <3>1, <3>2
  <2>5. stream' \in Seq(Wire)
    <3>1. less \in Seq(Wire)
      BY <2>2, Prefixed DEF less
    <3>. QED BY <2>1, <2>2, <2>4, <3>1
  <2>6. at' \in {to, "failed"}
    BY <2>1
  <2>7. short' \in BOOLEAN /\ (short => short')
    BY <2>1, <2>4
  <2>8. ~short' => stream' = Tail(stream)
    BY <2>1, <2>4
  <2>9. at = from /\ UNCHANGED end /\ UNCHANGED script /\ UNCHANGED trust
    BY <1>1 DEF ReadAnswer
  <2>. QED BY <1>1, <2>5, <2>6, <2>7, <2>8, <2>9
<1>2. CASE stream = <<>>
  BY <1>2 DEF ReadAnswer
<1>. QED BY <1>1, <1>2

LEMMA ConnectorTypesKept ==
    ASSUME ConnectorTypes, [ConnectorNext]_connector
    PROVE  ConnectorTypes'
<1>1. ASSUME NEW good \in Seq(Wire), NEW level \in {1, 2, 3},
             NEW from \in {"auth", "register", "request"},
             NEW to \in {"auth_answer", "reg_answer", "schema"},
             Write(from, to, good, level)
      PROVE  ConnectorTypes'
  <2>1. /\ at = from /\ at' \in {to, "failed"}
        /\ stream' \in Seq(Wire) /\ end' \in {"up", "eof", "reset"} /\ trust' \in {trust, level}
        /\ UNCHANGED script /\ UNCHANGED short
    BY <1>1, WriteTypes
  <2>. QED BY <2>1 DEF script, ConnectorTypes, Asking
<1>2. CASE createConnection
  BY <1>2 DEF createConnection, script, server, ConnectorTypes, Asking
<1>3. CASE SendAuth
  <2>1. <<Line("OK")>> \in Seq(Wire)
    BY LineTypes DEF Kinds
  <2>. QED BY <1>1, <1>3, <2>1 DEF SendAuth
<1>4. CASE SendRegistration
  <2>1. <<Line("OK")>> \in Seq(Wire)
    BY LineTypes DEF Kinds
  <2>. QED BY <1>1, <1>4, <2>1 DEF SendRegistration
<1>5. CASE SendRequest
  <2>. DEFINE good == <<Line("schema")>> \o [n \in 1..Values |-> Row(n)]
  <2>1. good \in Seq(Wire)
    BY Reply
  <2>2. Write("request", "schema", good, 3)
    BY <1>5 DEF SendRequest
  <2>. HIDE DEF good
  <2>. QED BY <1>1, <2>1, <2>2
<1>6. CASE ReadAnswer("auth_answer", "register")
  BY <1>6, AnswerTypes DEF script, ConnectorTypes, Asking
<1>7. CASE ReadAnswer("reg_answer", "request")
  BY <1>7, AnswerTypes DEF script, ConnectorTypes, Asking
<1>8. CASE ReadSchema
  <2>1. PICK dest \in Lines : readRow(dest)
    BY <1>8 DEF ReadSchema
  <2>2. stream' \in Seq(Wire) /\ end' \in {end, "eof"}
    BY <2>1, AfterRead DEF ConnectorTypes
  <2>3. at' \in {"failed", "spin", "row"}
    BY <1>8 DEF ReadSchema
  <2>. QED BY <1>8, <2>2, <2>3 DEF ReadSchema, script, ConnectorTypes, Asking
<1>9. CASE CompareRow
  <2>1. PICK dest \in Lines : readRow(dest)
    BY <1>9 DEF CompareRow
  <2>2. stream' \in Seq(Wire) /\ end' \in {end, "eof"}
    BY <2>1, AfterRead DEF ConnectorTypes
  <2>3. /\ at' \in {"spin", "row", "close"} /\ i' = i /\ j' \in 1..Values
        /\ rval' \in BOOLEAN /\ short' = short /\ trust' = trust
    <3>1. \/ at' = "spin" /\ UNCHANGED script
          \/ NextValue /\ UNCHANGED i /\ rval' \in {rval, FALSE}
      BY <1>9 DEF CompareRow
    <3>2. short' = short /\ trust' = trust
      BY <1>9 DEF CompareRow
    <3>3. CASE at' = "spin" /\ UNCHANGED script
      BY <3>2, <3>3 DEF script, ConnectorTypes
    <3>4. CASE NextValue /\ UNCHANGED i /\ rval' \in {rval, FALSE}
      <4>1. rval' \in BOOLEAN
        BY <3>4 DEF ConnectorTypes
      <4>2. at' \in {"row", "close"} /\ j' \in 1..Values
        BY CdcConnectorAssumption, <3>4 DEF NextValue, ConnectorTypes
      <4>. QED BY <3>2, <3>4, <4>1, <4>2
    <3>. QED BY <3>1, <3>3, <3>4
  <2>. QED BY <1>9, <2>2, <2>3 DEF ConnectorTypes, Asking
<1>10. CASE RequestFailed
  BY <1>10 DEF RequestFailed, server, ConnectorTypes, Asking
<1>11. CASE closeConnection
  BY CdcConnectorAssumption, <1>11 DEF closeConnection, ConnectorTypes, Asking
<1>12. CASE ConnectionBreaks
  BY <1>12, CutShort DEF ConnectionBreaks, script, ConnectorTypes, Asking
<1>13. CASE timeout_thread
  BY <1>13 DEF timeout_thread, script, server, ConnectorTypes, Asking
<1>14. CASE UNCHANGED connector
  BY <1>14 DEF connector, script, server, ConnectorTypes, Asking
<1>. QED BY <1>2, <1>3, <1>4, <1>5, <1>6, <1>7, <1>8, <1>9, <1>10, <1>11, <1>12, <1>13, <1>14,
            ConnectorActions

LEMMA NothingAheadKept ==
    ASSUME ConnectorTypes, NothingAhead, [ConnectorNext]_connector
    PROVE  NothingAhead'
<1>. USE DEF NothingAhead, Asking
<1>1. <<Line("OK")>> \in Seq(Wire) /\ Len(<<Line("OK")>>) = 1
  BY LineTypes DEF Kinds
<1>2. CASE createConnection
  BY <1>2 DEF createConnection, server
<1>3. ASSUME NEW from \in {"auth", "register"}, NEW to \in {"auth_answer", "reg_answer"},
             NEW level \in {1, 2}, Write(from, to, <<Line("OK")>>, level)
      PROVE  NothingAhead'
  <2>1. /\ at = from /\ at' \in {to, "failed"} /\ trust' \in {trust, level} /\ UNCHANGED short
        /\ at' = to => \/ Accepts(<<Line("OK")>>, level)
                       \/ end' = "eof" \/ UNCHANGED server
    <3>. DEFINE good == <<Line("OK")>>
    <3>1. good \in Seq(Wire) /\ Write(from, to, good, level) /\ level \in 0..3
      BY <1>1, <1>3
    <3>. HIDE DEF good
    <3>2. /\ at = from /\ at' \in {to, "failed"} /\ trust' \in {trust, level} /\ UNCHANGED short
          /\ at' = to => \/ Accepts(good, level)
                         \/ end' = "eof" \/ UNCHANGED server
      BY <3>1, WriteTypes
    <3>. QED BY <3>2 DEF good
  <2>2. CASE at' = to /\ Accepts(<<Line("OK")>>, level)
    <3>1. ~short /\ end = "up" => stream' = <<>> \o <<Line("OK")>>
      BY <2>1, <2>2 DEF Accepts
    <3>2. <<>> \o <<Line("OK")>> = <<Line("OK")>>
      BY <1>1, ConcatEmptySeq
    <3>. QED BY <1>1, <2>1, <2>2, <3>1, <3>2 DEF Accepts
  <2>3. CASE at' = to /\ (end' = "eof" \/ UNCHANGED server)
    <3>1. Len(<<>>) <= 1
      OBVIOUS
    <3>. QED BY <2>1, <2>3, <3>1 DEF server
  <2>. QED BY <2>1, <2>2, <2>3
<1>4. CASE SendAuth
  BY <1>3, <1>4 DEF SendAuth
<1>5. CASE SendRegistration
  BY <1>3, <1>5 DEF SendRegistration
<1>6. ASSUME NEW from \in {"auth_answer", "reg_answer"}, NEW to \in {"register", "request"},
             ReadAnswer(from, to)
      PROVE  NothingAhead'
  <2>1. /\ at = from /\ at' \in {to, "failed"} /\ UNCHANGED trust
        /\ short => short'
        /\ end' \in {end, "eof"}
        /\ ~short' /\ end' = "up" /\ at' = to => stream # <<>> /\ stream' = Tail(stream)
    BY <1>6, AnswerTypes DEF ConnectorTypes
  <2>2. ASSUME ~short', end' = "up", at' = to PROVE stream' = <<>>
    <3>1. stream # <<>> /\ stream' = Tail(stream) /\ Len(stream) <= 1 /\ stream \in Seq(Wire)
      BY <2>1, <2>2 DEF ConnectorTypes
    <3>2. Tail(stream) \in Seq(Wire) /\ Len(Tail(stream)) = 0
      <4>1. Len(stream) \in Nat /\ Len(stream) # 0
        BY <3>1
      <4>2. Tail(stream) \in Seq(Wire) /\ Len(Tail(stream)) = Len(stream) - 1
        BY <3>1, HeadTailProperties
      <4>. QED BY <3>1, <4>1, <4>2
    <3>. QED BY <3>1, <3>2
  <2>. QED BY <2>1, <2>2
<1>7. CASE \/ ReadAnswer("auth_answer", "register")
           \/ ReadAnswer("reg_answer", "request")
  BY <1>6, <1>7
<1>8. CASE SendRequest
  BY <1>8 DEF SendRequest, Write
<1>9. CASE ReadSchema \/ CompareRow
  BY <1>9 DEF ReadSchema, CompareRow, NextValue
<1>10. CASE RequestFailed \/ closeConnection
  BY <1>10 DEF RequestFailed, closeConnection
<1>11. CASE ConnectionBreaks
  BY <1>11 DEF ConnectionBreaks
<1>12. CASE timeout_thread
  BY <1>12 DEF timeout_thread
<1>13. CASE UNCHANGED connector
  BY <1>13 DEF connector, server
<1>. QED BY <1>2, <1>4, <1>5, <1>7, <1>8, <1>9, <1>10, <1>11, <1>12, <1>13, ConnectorActions

(* Behind the schema come the rows from the first on, behind a row those of *)
(* the next values.                                                         *)
LEMMA LineTaken ==
    ASSUME NEW s \in Seq(Wire), s # <<>>, NEW v \in Nat
    PROVE  /\ SchemaAhead(s) => ValuesAhead(Tail(s), 1)
           /\ ValuesAhead(s, v) => ValuesAhead(Tail(s), v + 1)
<1>1. /\ Len(Tail(s)) = Len(s) - 1 /\ Len(s) \in Nat
      /\ \A k \in 1..Len(Tail(s)) : Tail(s)[k] = s[k + 1]
  BY HeadTailProperties
<1>2. ASSUME SchemaAhead(s), NEW k \in 1..Len(Tail(s))
      PROVE  Tail(s)[k] \in {Row(1 + k - 1), Line("part")}
  <2>1. s[k + 1] \in {Row((k + 1) - 1), Line("part")}
    BY <1>1, <1>2 DEF SchemaAhead
  <2>2. (k + 1) - 1 = 1 + k - 1
    OBVIOUS
  <2>. QED BY <1>1, <2>1, <2>2
<1>3. ASSUME ValuesAhead(s, v), NEW k \in 1..Len(Tail(s))
      PROVE  Tail(s)[k] \in {Row((v + 1) + k - 1), Line("part")}
  <2>1. s[k + 1] \in {Row(v + (k + 1) - 1), Line("part")}
    BY <1>1, <1>3 DEF ValuesAhead
  <2>2. v + (k + 1) - 1 = (v + 1) + k - 1
    OBVIOUS
  <2>. QED BY <1>1, <2>1, <2>2
<1>. QED BY <1>2, <1>3 DEF ValuesAhead

LEMMA NothingIsInStep ==
    ASSUME NEW v PROVE SchemaAhead(<<>>) /\ ValuesAhead(<<>>, v)
BY DEF SchemaAhead, ValuesAhead

LEMMA RowsAheadKept ==
    ASSUME ConnectorTypes, NothingAhead, RowsAhead, [ConnectorNext]_connector
    PROVE  RowsAhead'
<1>1. stream \in Seq(Wire) /\ j \in Nat
  BY DEF ConnectorTypes
<1>2. ASSUME at' \notin {"schema", "row"} PROVE RowsAhead'
  BY <1>2 DEF RowsAhead
<1>3. CASE createConnection
  BY <1>2, <1>3 DEF createConnection
<1>4. CASE SendAuth \/ SendRegistration
  BY <1>2, <1>4 DEF SendAuth, SendRegistration, Write
<1>5. CASE SendRequest
  <2>. DEFINE good == <<Line("schema")>> \o [n \in 1..Values |-> Row(n)]
  <2>1. good \in Seq(Wire) /\ SchemaAhead(good)
    BY Reply
  <2>2. Write("request", "schema", good, 3)
    BY <1>5 DEF SendRequest
  <2>. HIDE DEF good
  <2>3. /\ at = "request" /\ at' \in {"schema", "failed"} /\ UNCHANGED short
        /\ trust' # trust => Accepts(good, 3)
    BY <2>2 DEF Write, Refuses, Unheard, server
  <2>4. trust # 3
    BY <2>3 DEF NothingAhead, Asking
  <2>5. ASSUME ~short', trust' = 3 PROVE SchemaAhead(stream')
    <3>1. stream = <<>> /\ stream' = stream \o good
      BY <2>3, <2>4, <2>5 DEF NothingAhead, Accepts
    <3>2. stream' = good
      BY <2>1, <3>1, ConcatEmptySeq
    <3>. QED BY <2>1, <3>2
  <2>. QED BY <2>3, <2>5 DEF RowsAhead
<1>6. CASE \/ ReadAnswer("auth_answer", "register")
           \/ ReadAnswer("reg_answer", "request")
  <2>1. at' \notin {"schema", "row"}
    BY <1>1, <1>6, AnswerTypes DEF ConnectorTypes
  <2>. QED BY <1>2, <2>1
<1>7. CASE ReadSchema
  <2>1. PICK dest \in Lines : readRow(dest)
    BY <1>7 DEF ReadSchema
  <2>2. stream' = <<>> \/ (stream # <<>> /\ stream' = Tail(stream))
    BY <1>1, <2>1, AfterRead
  <2>3. at = "schema" /\ at' # "schema" /\ j' = j /\ UNCHANGED <<short, trust>>
    BY <1>7 DEF ReadSchema, script
  <2>4. j = 1
    BY <2>3 DEF ConnectorTypes
  <2>5. ASSUME ~short, trust = 3 PROVE ValuesAhead(stream', 1)
    BY <1>1, <2>2, <2>3, <2>5, LineTaken, NothingIsInStep DEF RowsAhead
  <2>. QED BY <2>3, <2>4, <2>5 DEF RowsAhead
<1>8. CASE CompareRow
  <2>1. PICK dest \in Lines : readRow(dest)
    BY <1>8 DEF CompareRow
  <2>2. stream' = <<>> \/ (stream # <<>> /\ stream' = Tail(stream))
    BY <1>1, <2>1, AfterRead
  <2>3. /\ at = "row" /\ at' # "schema" /\ UNCHANGED <<short, trust>>
        /\ at' = "row" => j' = j + 1
    BY <1>8 DEF CompareRow, NextValue
  <2>4. ASSUME ~short, trust = 3 PROVE ValuesAhead(stream', j + 1)
    BY <1>1, <2>2, <2>3, <2>4, LineTaken, NothingIsInStep DEF RowsAhead
  <2>. QED BY <2>3, <2>4 DEF RowsAhead
<1>9. CASE RequestFailed \/ closeConnection \/ timeout_thread
  BY <1>2, <1>9 DEF RequestFailed, closeConnection, timeout_thread
<1>10. CASE ConnectionBreaks
  <2>1. /\ stream' \in Seq(Wire) /\ Len(stream') <= Len(stream)
        /\ \A k \in 1..Len(stream') :
              \/ stream'[k] = stream[k]
              \/ stream'[k] = Line("part") /\ stream[k].kind = "row"
    BY <1>1, <1>10, CutShort
  <2>2. UNCHANGED <<at, j, trust, short>>
    BY <1>10 DEF ConnectionBreaks, script
  <2>3. \A k \in 1..Len(stream') : k \in 1..Len(stream)
    BY <1>1, <2>1
  <2>4. ASSUME SchemaAhead(stream) PROVE SchemaAhead(stream')
    <3>1. Line("schema").kind # "row"
      BY DEF Line
    <3>. QED BY <2>1, <2>3, <2>4, <3>1 DEF SchemaAhead
  <2>5. ASSUME ValuesAhead(stream, j) PROVE ValuesAhead(stream', j)
    BY <2>1, <2>3, <2>5 DEF ValuesAhead
  <2>. QED BY <2>2, <2>4, <2>5 DEF RowsAhead
<1>11. CASE UNCHANGED connector
  BY <1>11 DEF connector, script, server, RowsAhead
<1>. QED BY <1>3, <1>4, <1>5, <1>6, <1>7, <1>8, <1>9, <1>10, <1>11, ConnectorActions

LEMMA ComparedKept ==
    ASSUME ConnectorTypes, Compared, [ConnectorNext]_connector
    PROVE  Compared'
<1>1. stream \in Seq(Wire) /\ j \in 1..Values /\ i \in 1..Types
  BY DEF ConnectorTypes
<1>2. ASSUME at' \notin {"row", "close", "done"}, UNCHANGED <<i, missed, matched, rval>>
      PROVE  Compared'
  BY <1>2 DEF Compared, Found
<1>3. CASE createConnection
  BY <1>2, <1>3 DEF createConnection, script
<1>4. CASE SendAuth \/ SendRegistration \/ SendRequest
  BY <1>2, <1>4 DEF SendAuth, SendRegistration, SendRequest,
                    Write, script
<1>5. CASE \/ ReadAnswer("auth_answer", "register")
           \/ ReadAnswer("reg_answer", "request")
  <2>1. at' \notin {"row", "close", "done"} /\ UNCHANGED script
    BY <1>1, <1>5, AnswerTypes DEF ConnectorTypes
  <2>. QED BY <1>2, <2>1 DEF script
<1>6. CASE ReadSchema
  <2>1. /\ at = "schema" /\ at' \in {"failed", "spin", "row"}
        /\ UNCHANGED <<i, j, missed, matched, rval>>
    BY <1>6 DEF ReadSchema, script
  <2>2. j' = 1
    BY <2>1 DEF ConnectorTypes
  <2>3. FoundSoFar'
    BY <2>2 DEF FoundSoFar
  <2>. QED BY <2>1, <2>3 DEF Compared, Found
<1>7. CASE CompareRow
  <2>1. PICK dest \in Lines :
           /\ readRow(dest)
           /\ \/ at' = "spin" /\ UNCHANGED script
              \/ /\ dest.kind = "error" /\ missed' = missed \cup {<<i, j>>}
                 /\ NextValue /\ UNCHANGED <<i, rval, matched>>
              \/ /\ dest = Row(j) /\ matched' = matched \cup {<<i, j>>}
                 /\ NextValue /\ UNCHANGED <<i, rval, missed>>
              \/ rval' = FALSE
    BY <1>7 DEF CompareRow
  <2>2. at = "row"
    BY <1>7 DEF CompareRow
  <2>3. CASE at' = "spin" /\ UNCHANGED script
    BY <1>2, <2>3 DEF script
  <2>4. CASE rval' = FALSE
    BY <2>4 DEF Compared
  <2>5. CASE /\ dest.kind = "error" /\ missed' = missed \cup {<<i, j>>}
             /\ NextValue /\ UNCHANGED <<i, rval, matched>>
    <3>1. dest = Line("error")
      <4>1. dest \notin {Line("empty"), Line("forever")}
        BY <2>5 DEF Line
      <4>2. stream # <<>> => Head(stream).kind # "error"
        <5>1. stream # <<>> => Head(stream) \in Wire
          BY <1>1
        <5>. QED BY <5>1 DEF Wire, Kinds
      <4>. QED BY <1>1, <2>1, <2>5, <4>1, <4>2, AfterRead
    <3>2. stream' = <<>> /\ end' = "eof" /\ end = "reset"
      BY <1>1, <2>1, <3>1, AfterRead
    <3>3. ASSUME rval PROVE \A v \in 1..(j - 1) : <<i, v>> \in matched
      BY <2>2, <3>2, <3>3 DEF Compared, FoundSoFar
    <3>4. ASSUME rval, at' = "row" PROVE FoundSoFar'
      BY <1>1, <2>5, <3>2, <3>3, <3>4 DEF FoundSoFar, NextValue
    <3>5. ASSUME rval, at' = "close" PROVE \A v \in 1..Values : Found(i, v)'
      BY <1>1, <2>5, <3>3, <3>5 DEF Found, NextValue
    <3>6. at' \in {"row", "close"}
      BY <2>5 DEF NextValue
    <3>7. ASSUME rval PROVE \A t \in 1..(i - 1), v \in 1..Values : Found(t, v)'
      BY <2>5, <3>7 DEF Compared, Found
    <3>. QED BY <2>5, <3>4, <3>5, <3>6, <3>7 DEF Compared
  <2>6. CASE /\ dest = Row(j) /\ matched' = matched \cup {<<i, j>>}
             /\ NextValue /\ UNCHANGED <<i, rval, missed>>
    <3>1. stream # <<>>
      <4>1. dest \notin {Line("empty"), Line("forever"), Line("error")}
        BY <2>6 DEF Line, Row
      <4>. QED BY <1>1, <2>1, <4>1, AfterRead
    <3>2. ASSUME rval PROVE \A v \in 1..(j - 1) : <<i, v>> \in matched
      BY <2>2, <3>1, <3>2 DEF Compared, FoundSoFar
    <3>3. ASSUME rval, at' = "row" PROVE FoundSoFar'
      BY <1>1, <2>6, <3>2, <3>3 DEF FoundSoFar, NextValue
    <3>4. ASSUME rval, at' = "close" PROVE \A v \in 1..Values : Found(i, v)'
      BY <1>1, <2>6, <3>2, <3>4 DEF Found, NextValue
    <3>5. at' \in {"row", "close"}
      BY <2>6 DEF NextValue
    <3>6. ASSUME rval PROVE \A t \in 1..(i - 1), v \in 1..Values : Found(t, v)'
      BY <2>6, <3>6 DEF Compared, Found
    <3>. QED BY <2>6, <3>3, <3>4, <3>5, <3>6 DEF Compared
  <2>. QED BY <2>1, <2>3, <2>4, <2>5, <2>6
<1>8. CASE RequestFailed
  BY <1>8 DEF RequestFailed, Compared
<1>9. CASE closeConnection
  <2>1. /\ at = "close" /\ UNCHANGED <<rval, missed, matched>>
        /\ \/ i < Types /\ at' = "next" /\ i' = i + 1
           \/ ~(i < Types) /\ at' = "done" /\ i' = i
    BY <1>9 DEF closeConnection
  <2>2. ASSUME rval PROVE \A t \in 1..i, v \in 1..Values : Found(t, v)'
    <3>1. \A t \in 1..(i - 1), v \in 1..Values : Found(t, v)
      BY <2>2 DEF Compared
    <3>2. \A v \in 1..Values : Found(i, v)
      BY <2>1, <2>2 DEF Compared
    <3>3. \A t \in 1..i, v \in 1..Values : Found(t, v)
      BY <1>1, <3>1, <3>2
    <3>. QED BY <2>1, <3>3 DEF Found
  <2>. QED BY <1>1, <2>1, <2>2 DEF Compared, Found
<1>10. CASE ConnectionBreaks
  <2>1. /\ at \notin {"close", "done"} /\ end = "up"
        /\ UNCHANGED <<at, i, j, missed, matched, rval>>
    BY <1>10 DEF ConnectionBreaks, script
  <2>2. FoundSoFar => FoundSoFar'
    BY <2>1 DEF FoundSoFar
  <2>. QED BY <2>1, <2>2 DEF Compared, Found
<1>11. CASE timeout_thread
  BY <1>2, <1>11 DEF timeout_thread, script
<1>12. CASE UNCHANGED connector
  <2>1. UNCHANGED <<at, i, j, missed, matched, rval, stream, end>>
    BY <1>12 DEF connector, script, server
  <2>. QED BY <2>1 DEF Compared, Found, FoundSoFar
<1>. QED BY <1>3, <1>4, <1>5, <1>6, <1>7, <1>8, <1>9, <1>10, <1>11, <1>12, ConnectorActions

(* For every number of types, values and faults the parts of ConnectorInv   *)
(* hold throughout cdc_datatypes.cpp: types, what can be waiting in the     *)
(* stream at each place of the connector, and what was compared.            *)
THEOREM ConnectorInvariant == ConnectorSpec => []ConnectorInv
<1>1. ConnectorInit => ConnectorInv
  <2>. SUFFICES ASSUME ConnectorInit PROVE ConnectorInv
    OBVIOUS
  <2>. USE DEF ConnectorInit
  <2>1. ConnectorTypes
    <3>1. 1 \in 1..Types /\ 1 \in 1..Values /\ 0 \in 0..3
      BY CdcConnectorAssumption
    <3>2. <<>> \in Seq(Wire)
      OBVIOUS
    <3>. QED BY <3>1, <3>2 DEF ConnectorTypes, Asking
  <2>. QED BY <2>1 DEF ConnectorInv, NothingAhead, Asking, RowsAhead, Compared
<1>2. ConnectorInv /\ [ConnectorNext]_connector => ConnectorInv'
  BY ConnectorTypesKept, NothingAheadKept, RowsAheadKept, ComparedKept DEF ConnectorInv
<1>. QED BY <1>1, <1>2, PTL DEF ConnectorSpec

(* Whatever has gone wrong on this and the earlier connections, unless an   *)
(* answer was read before all of it had arrived (cdc_connector.cpp:235) the *)
(* next line that run_test compares is the row of its value or the          *)
(* beginning of it.                                                         *)
THEOREM ConnectorStaysInStep == ConnectorSpec => []InStep
<1>1. ConnectorInv => InStep
  <2>. SUFFICES ASSUME ConnectorInv, at = "row", ~short, trust = 3, stream # <<>>
                PROVE  Head(stream) \in {Row(j), Line("part")}
    BY DEF InStep
  <2>1. stream \in Seq(Wire) /\ j \in Nat
    BY DEF ConnectorInv, ConnectorTypes
  <2>2. 1 \in 1..Len(stream) /\ Head(stream) = stream[1] /\ j + 1 - 1 = j
    BY <2>1
  <2>3. stream[1] \in {Row(j + 1 - 1), Line("part")}
    BY <2>2 DEF ConnectorInv, RowsAhead, ValuesAhead
  <2>. QED BY <2>2, <2>3
<1>. QED BY <1>1, ConnectorInvariant, PTL

(* When cdc_datatypes passes, every value of every type was found equal to  *)
(* its row, but for a last value of a type whose row could not be read:     *)
(* neither the end of the stream, which readRow does not report             *)
(* (cdc_connector.cpp:189), nor a failed read (cdc_datatypes.cpp:187) can   *)
(* hide another one.                                                        *)
THEOREM PassedHasCompared == ConnectorSpec => []PassedIsCompared
<1>1. ConnectorInv => PassedIsCompared
  <2>. SUFFICES ASSUME ConnectorInv, at = "done", rval,
                       NEW t \in 1..Types, NEW v \in 1..Values
                PROVE  Found(t, v)
    BY DEF PassedIsCompared, Found
  <2>1. i = Types
    BY DEF ConnectorInv, ConnectorTypes
  <2>2. \A u \in 1..(i - 1), w \in 1..Values : Found(u, w)
    BY DEF ConnectorInv, Compared
  <2>3. \A w \in 1..Values : Found(i, w)
    BY DEF ConnectorInv, Compared
  <2>. QED BY CdcConnectorAssumption, <2>1, <2>2, <2>3
<1>. QED BY <1>1, ConnectorInvariant, PTL
=============================================================================
