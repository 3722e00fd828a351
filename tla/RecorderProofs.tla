--------------------------- MODULE RecorderProofs ---------------------------
(***************************************************************************)
(* Proofs about Recorder: its types, the sessions it holds, the fate of    *)
(* each message, and that the table is a ledger.                           *)
(***************************************************************************)
EXTENDS Recorder, SequenceTheorems, TLAPS

Rows == Seq([number : 1..MaxSolutions, kind : {"fix", "nofix"}])

\* The message in hand has passed the length check.
KindInv == at /= "idle" => kind /= "short" /\ solution > 0

\* A session exists only for an open connection, and one is open only between
\* Connected and Finish.
SessionInv ==
    /\ sessions \in {0, 1}
    /\ sessions = 1 => conn = "open"
    /\ conn = "open" => at \in {"exec", "reply", "finish"}

\* Where the row is, or else what went wrong.
LastIsCurrent == table /= <<>> /\ table[Len(table)].number = solution
FateInv ==
    /\ at = "reply" => LastIsCurrent /\ conn = "open"
    /\ at = "exec" /\ conn /= "open" => failures /= {} /\ complained
    /\ at \in {"finish", "idle"} /\ kind /= "short" =>
            \/ LastIsCurrent
            \/ failures /= {} /\ complained

\* Rows are numbered up to the message in hand, which has none before Insert.
LedgerInv ==
    /\ \A i \in DOMAIN table : table[i].number <= solution
    /\ at \in {"connect", "exec"} => \A i \in DOMAIN table : table[i].number < solution

RInv == RecorderTypeOK /\ KindInv /\ SessionInv /\ FateInv /\ LedgerInv

-----------------------------------------------------------------------------
LEMMA RInit == RecorderInit => RInv
<1> SUFFICES ASSUME RecorderInit PROVE RInv
  OBVIOUS
<1> USE DEF RecorderInit
<1>1. RecorderTypeOK
  <2>1. table \in Seq([number : 1..MaxSolutions, kind : {"fix", "nofix"}])
    OBVIOUS
  <2>2. solution \in 0..MaxSolutions
    BY MaxSolutionsAssumption
  <2>3. /\ at \in {"idle", "connect", "exec", "reply", "finish", "dead"}
        /\ kind \in {"fix", "nofix", "short"} /\ conn \in {"NULL", "open", "freed"}
    OBVIOUS
  <2>4. /\ sessions \in Nat /\ server \in {"up", "refusing", "down"}
        /\ complained \in BOOLEAN /\ failures \subseteq {"connect", "insert"}
    OBVIOUS
  <2> QED BY <2>1, <2>2, <2>3, <2>4 DEF RecorderTypeOK
<1>2. KindInv /\ SessionInv /\ FateInv
  BY DEF KindInv, SessionInv, FateInv
<1>3. LedgerInv
  BY DEF LedgerInv
<1> QED BY <1>1, <1>2, <1>3 DEF RInv

LEMMA KindStep == RInv /\ [RecorderNext]_recorderVars => KindInv'
  BY DEF RInv, KindInv, RecorderTypeOK, RecorderNext, RecorderStep, recorderVars,
         Receive, Connected, NotConnected, Insert, Refused, ExecFreed, Reply,
         Finish, ServerTurns

LEMMA SessionStep == RInv /\ [RecorderNext]_recorderVars => SessionInv'
  BY DEF RInv, SessionInv, RecorderNext, RecorderStep, recorderVars,
         Receive, Connected, NotConnected, Insert, Refused, ExecFreed, Reply,
         Finish, ServerTurns

\* What a row is.
LEMMA RowType ==
    ASSUME NEW t \in Rows
    PROVE  /\ DOMAIN t = 1..Len(t) /\ Len(t) \in Nat
           /\ \A i \in DOMAIN t : t[i].number \in 1..MaxSolutions
<1>1. DOMAIN t = 1..Len(t) /\ Len(t) \in Nat
  BY LenProperties DEF Rows
<1>2. \A i \in 1..Len(t) : t[i] \in [number : 1..MaxSolutions, kind : {"fix", "nofix"}]
  BY ElementOfSeq DEF Rows
<1>3. \A i \in 1..Len(t) : t[i].number \in 1..MaxSolutions
  BY <1>2
<1> QED BY <1>1, <1>3

\* What Insert does to the table.
LEMMA InsertedRow ==
    ASSUME RInv, Insert
    PROVE  /\ table' \in Rows
           /\ Len(table') = Len(table) + 1
           /\ table'[Len(table')].number = solution
           /\ \A i \in DOMAIN table : table'[i] = table[i]
           /\ DOMAIN table' = DOMAIN table \cup {Len(table')}
<1> DEFINE row == [number |-> solution, kind |-> kind]
<1>1. row \in [number : 1..MaxSolutions, kind : {"fix", "nofix"}]
  BY DEF RInv, KindInv, RecorderTypeOK, Insert
<1>2. table \in Rows /\ table' = Append(table, row)
  BY DEF RInv, RecorderTypeOK, Insert, Rows
<1> HIDE DEF row
<1>3. /\ table' \in Rows /\ Len(table') = Len(table) + 1
      /\ table'[Len(table) + 1] = row
      /\ \A i \in 1..Len(table) : table'[i] = table[i]
      /\ DOMAIN table = 1..Len(table) /\ DOMAIN table' = 1..Len(table) + 1
      /\ Len(table) \in Nat
  BY <1>1, <1>2 DEF Rows
<1>4. row.number = solution
  BY DEF row
<1> QED BY <1>3, <1>4

\* RecorderTypeOK: only Receive and Insert need more than a look.
LEMMA RTypeStep == RInv /\ [RecorderNext]_recorderVars => RecorderTypeOK'
<1> SUFFICES ASSUME RInv, [RecorderNext]_recorderVars PROVE RecorderTypeOK'
  OBVIOUS
<1>1. RecorderTypeOK
  BY DEF RInv
<1>2. ASSUME NEW k \in {"fix", "nofix", "short"}, Receive(k) PROVE RecorderTypeOK'
  <2>1. solution' \in 0..MaxSolutions
    BY <1>1, <1>2, MaxSolutionsAssumption DEF RecorderTypeOK, Receive
  <2>2. at' \in {"idle", "connect"} /\ kind' \in {"fix", "nofix", "short"}
    BY <1>2 DEF Receive
  <2>3. complained' = FALSE /\ failures' = {}
    BY <1>2 DEF Receive
  <2>4. conn' = conn /\ sessions' = sessions /\ server' = server /\ table' = table
    BY <1>2 DEF Receive
  <2>5. table \in Rows
    BY <1>1 DEF RecorderTypeOK, Rows
  <2>6. conn \in {"NULL", "open", "freed"} /\ sessions \in Nat
        /\ server \in {"up", "refusing", "down"}
    BY <1>1 DEF RecorderTypeOK
  <2>7. table' \in Rows
    BY <2>4, <2>5
  <2>8. /\ conn' \in {"NULL", "open", "freed"} /\ sessions' \in Nat
        /\ server' \in {"up", "refusing", "down"}
    BY <2>4, <2>6
  <2>9. complained' \in BOOLEAN /\ failures' \subseteq {"connect", "insert"}
    BY <2>3
  <2> QED BY <2>1, <2>2, <2>7, <2>8, <2>9 DEF RecorderTypeOK, Rows
<1>3. CASE Insert
  BY <1>1, <1>3, InsertedRow DEF RecorderTypeOK, Insert, Rows
<1>4. CASE Connected \/ NotConnected \/ Refused
  <2>1. CASE Connected
    BY <1>1, <2>1 DEF RecorderTypeOK, Connected
  <2>2. CASE NotConnected
    BY <1>1, <2>2 DEF RecorderTypeOK, NotConnected
  <2>3. CASE Refused
    <3>1. failures' \subseteq {"connect", "insert"}
      BY <1>1, <2>3 DEF RecorderTypeOK, Refused
    <3>2. at' = "finish" /\ complained' = TRUE
      BY <2>3 DEF Refused
    <3>3. UNCHANGED <<solution, kind, conn, sessions, server, table>>
      BY <2>3 DEF Refused
    <3> QED BY <1>1, <3>1, <3>2, <3>3 DEF RecorderTypeOK
  <2> QED BY <1>4, <2>1, <2>2, <2>3
<1>5. CASE ExecFreed \/ Reply
  BY <1>1, <1>5 DEF RecorderTypeOK, ExecFreed, Reply
<1>6. CASE Finish
  <2>1. sessions' \in Nat
    BY <1>1, <1>6 DEF RecorderTypeOK, Finish
  <2>2. at' \in {"idle", "dead"} /\ conn' \in {"NULL", "freed"}
    BY <1>6 DEF Finish
  <2> QED BY <1>1, <1>6, <2>1, <2>2 DEF RecorderTypeOK, Finish
<1>7. CASE ServerTurns
  <2>1. server' \in {"up", "refusing", "down"} /\ sessions' \in Nat
    BY <1>1, <1>7 DEF RecorderTypeOK, ServerTurns
  <2>2. UNCHANGED <<at, solution, kind, conn, table, complained, failures>>
    BY <1>7 DEF ServerTurns
  <2> QED BY <1>1, <2>1, <2>2 DEF RecorderTypeOK
<1>8. CASE UNCHANGED recorderVars
  BY <1>1, <1>8 DEF RecorderTypeOK, recorderVars
<1> QED BY <1>2, <1>3, <1>4, <1>5, <1>6, <1>7, <1>8 DEF RecorderNext, RecorderStep

LEMMA FateStep == RInv /\ [RecorderNext]_recorderVars => FateInv'
<1> SUFFICES ASSUME RInv, [RecorderNext]_recorderVars PROVE FateInv'
  OBVIOUS
<1>1. FateInv /\ KindInv /\ SessionInv
  BY DEF RInv
<1>2. CASE Insert
  <2>1. LastIsCurrent'
    <3>1. table' /= <<>>
      BY <1>2, InsertedRow DEF Rows, RInv, RecorderTypeOK
    <3> QED BY <1>2, <3>1, InsertedRow DEF LastIsCurrent, Insert
  <2> QED BY <1>2, <2>1 DEF FateInv, Insert
<1>3. ASSUME NEW k \in {"fix", "nofix", "short"}, Receive(k) PROVE FateInv'
  BY <1>1, <1>3 DEF FateInv, Receive
<1>4. CASE Connected \/ NotConnected
  BY <1>1, <1>4 DEF FateInv, Connected, NotConnected
<1>5. CASE Refused \/ ExecFreed
  BY <1>1, <1>5 DEF FateInv, LastIsCurrent, Refused, ExecFreed
<1>6. CASE Reply \/ Finish
  BY <1>1, <1>6 DEF FateInv, LastIsCurrent, Reply, Finish, KindInv
<1>7. CASE ServerTurns \/ UNCHANGED recorderVars
  BY <1>1, <1>7 DEF FateInv, LastIsCurrent, ServerTurns, recorderVars
<1> QED BY <1>2, <1>3, <1>4, <1>5, <1>6, <1>7 DEF RecorderNext, RecorderStep

LEMMA LedgerStep == RInv /\ [RecorderNext]_recorderVars => LedgerInv'
<1> SUFFICES ASSUME RInv, [RecorderNext]_recorderVars PROVE LedgerInv'
  OBVIOUS
<1>1. /\ LedgerInv /\ solution \in Nat
      /\ \A i \in DOMAIN table : table[i].number \in Nat
  <2>1. table \in Rows /\ solution \in Nat
    BY MaxSolutionsAssumption DEF RInv, RecorderTypeOK, Rows
  <2>3. \A i \in DOMAIN table : table[i].number \in 1..MaxSolutions
    BY <2>1, RowType
  <2> QED BY <2>1, <2>3, MaxSolutionsAssumption DEF RInv
<1>2. CASE Insert
  <2>1. /\ at' = "reply" /\ solution' = solution
    BY <1>2 DEF Insert
  <2>2. \A i \in DOMAIN table' : table'[i].number <= solution
    <3>1. /\ DOMAIN table' = DOMAIN table \cup {Len(table')}
          /\ \A i \in DOMAIN table : table'[i] = table[i]
          /\ table'[Len(table')].number = solution
      BY <1>2, InsertedRow
    <3>2. \A i \in DOMAIN table : table'[i].number <= solution
      BY <1>1, <3>1 DEF LedgerInv
    <3>3. solution <= solution
      BY <1>1
    <3> QED BY <3>1, <3>2, <3>3
  <2> QED BY <2>1, <2>2 DEF LedgerInv
<1>3. ASSUME NEW k \in {"fix", "nofix", "short"}, Receive(k) PROVE LedgerInv'
  <2>1. table' = table /\ solution' = solution + 1
    BY <1>3 DEF Receive
  <2> QED BY <1>1, <2>1 DEF LedgerInv
<1>4. CASE Connected \/ NotConnected \/ Refused \/ ExecFreed \/ Reply \/ Finish
  BY <1>1, <1>4 DEF LedgerInv, Connected, NotConnected, Refused, ExecFreed,
                    Reply, Finish
<1>5. CASE ServerTurns \/ UNCHANGED recorderVars
  BY <1>1, <1>5 DEF LedgerInv, ServerTurns, recorderVars
<1> QED BY <1>2, <1>3, <1>4, <1>5 DEF RecorderNext, RecorderStep

LEMMA RStep == RInv /\ [RecorderNext]_recorderVars => RInv'
  BY RTypeStep, KindStep, SessionStep, FateStep, LedgerStep DEF RInv

\* RecorderTypeOK holds always (display_nav_sol() and its server).
THEOREM RecorderTypes == RecorderSpec => []RecorderTypeOK
<1>1. RInv => RecorderTypeOK
  BY DEF RInv
<1> QED BY <1>1, RInit, RStep, PTL DEF RecorderSpec

\* SessionsAreClosed: one session at most, none between messages (274, 303).
THEOREM SessionsClosed == RecorderSpec => []SessionsAreClosed
<1>1. RInv => SessionsAreClosed
  BY DEF RInv, SessionInv, SessionsAreClosed
<1> QED BY <1>1, RInit, RStep, PTL DEF RecorderSpec

\* RowOrComplaint: no message is lost without a word (276-300).
THEOREM NoMessageLostSilently == RecorderSpec => []RowOrComplaint
<1>1. RInv => RowOrComplaint
  BY DEF RInv, FateInv, LastIsCurrent, RowOrComplaint
<1> QED BY <1>1, RInit, RStep, PTL DEF RecorderSpec

-----------------------------------------------------------------------------
(* What the process can die of *)

\* A freed connection in use is one that has just failed, not one of an earlier
\* message.
FreedInv ==
    at = "dead" \/ (at \in {"exec", "reply", "finish"} /\ conn = "freed")
        => "connect" \in failures

\* PQconnectdb() replaces the pointer to the last message's connection, and only
\* its error branch frees the new one before the end.
LEMMA FreedStep == RInv /\ FreedInv /\ [RecorderNext]_recorderVars => FreedInv'
<1> SUFFICES ASSUME RInv, FreedInv, [RecorderNext]_recorderVars PROVE FreedInv'
  OBVIOUS
<1> USE DEF FreedInv
<1>1. ASSUME NEW k \in {"fix", "nofix", "short"}, Receive(k) PROVE FreedInv'
  BY <1>1 DEF Receive
<1>2. CASE Connected \/ NotConnected
  BY <1>2 DEF Connected, NotConnected
<1>3. CASE Insert \/ Refused
  BY <1>3 DEF Insert, Refused
<1>4. CASE ExecFreed \/ Reply \/ Finish
  BY <1>4 DEF ExecFreed, Reply, Finish
<1>5. CASE ServerTurns \/ UNCHANGED recorderVars
  BY <1>5 DEF ServerTurns, recorderVars
<1> QED BY <1>1, <1>2, <1>3, <1>4, <1>5 DEF RecorderNext, RecorderStep

\* DiesOnlyOfConnect: recording survives all that a server may do to an open
\* connection.
THEOREM DeathIsOfConnect == RecorderSpec => []DiesOnlyOfConnect
<1>1. RecorderInit => FreedInv
  BY DEF RecorderInit, FreedInv
<1>2. FreedInv => DiesOnlyOfConnect
  BY DEF FreedInv, DiesOnlyOfConnect, Dead
<1> QED BY <1>1, <1>2, RInit, RStep, FreedStep, PTL DEF RecorderSpec

-----------------------------------------------------------------------------
LEMMA FunctionIsSeq ==
    ASSUME NEW S, NEW n \in Nat, NEW f \in [1..n -> S]
    PROVE  f \in Seq(S) /\ Len(f) = n
  OBVIOUS

\* The numbers of a table are a sequence as long as the table.
LEMMA NumbersType ==
    ASSUME NEW t \in Rows
    PROVE  LET n == [i \in DOMAIN t |-> t[i].number]
           IN  n \in Seq(1..MaxSolutions) /\ Len(n) = Len(t)
<1> DEFINE n == [i \in DOMAIN t |-> t[i].number]
<1>1. DOMAIN t = 1..Len(t) /\ Len(t) \in Nat
  BY RowType
<1>2. n \in [1..Len(t) -> 1..MaxSolutions]
  BY <1>1, RowType
<1> HIDE DEF n
<1>4. n \in Seq(1..MaxSolutions) /\ Len(n) = Len(t)
  BY <1>1, <1>2, FunctionIsSeq
<1> QED BY <1>4 DEF n

\* Every step is an arrival, a new row for the newest message, or a stutter.
LEMMA LedgerImplStep ==
    RInv /\ [RecorderNext]_recorderVars => [Abstract!Next]_(Abstract!vars)
<1> SUFFICES ASSUME RInv, [RecorderNext]_recorderVars
             PROVE  Abstract!Next \/ UNCHANGED <<solution, Numbers>>
  BY DEF Abstract!vars
<1> USE DEF Abstract!Next
<1>1. ASSUME NEW k \in {"fix", "nofix", "short"}, Receive(k) PROVE Abstract!Arrive
  BY <1>1 DEF Receive, Abstract!Arrive, Numbers
<1>2. CASE Insert
  <2>1. table \in Rows /\ table' \in Rows
    BY <1>2, InsertedRow DEF RInv, RecorderTypeOK, Rows
  <2>2. /\ DOMAIN table = 1..Len(table) /\ DOMAIN table' = 1..Len(table')
        /\ Len(table) \in Nat /\ Len(table') = Len(table) + 1
    BY <1>2, <2>1, InsertedRow DEF Rows
  <2>3. /\ Numbers \in Seq(1..MaxSolutions) /\ Len(Numbers) = Len(table)
        /\ Numbers' \in Seq(1..MaxSolutions) /\ Len(Numbers') = Len(table')
    BY <2>1, <2>2, NumbersType DEF Numbers
  <2>4. Numbers' = Append(Numbers, solution)
    <3>1. solution \in 1..MaxSolutions
      BY <1>2 DEF RInv, KindInv, RecorderTypeOK, Insert
    <3>2. /\ Append(Numbers, solution) \in Seq(1..MaxSolutions)
          /\ Len(Append(Numbers, solution)) = Len(Numbers) + 1
          /\ \A i \in 1..Len(Numbers) : Append(Numbers, solution)[i] = Numbers[i]
          /\ Append(Numbers, solution)[Len(Numbers) + 1] = solution
      BY <2>3, <3>1, AppendProperties
    <3>3. \A i \in 1..Len(Numbers') : Numbers'[i] = Append(Numbers, solution)[i]
      <4>1. \A i \in 1..Len(table) : Numbers'[i] = Numbers[i]
        BY <1>2, <2>2, InsertedRow DEF Numbers
      <4>2. Numbers'[Len(table')] = solution
        BY <1>2, <2>2, InsertedRow DEF Numbers
      <4> QED BY <2>2, <2>3, <3>2, <4>1, <4>2
    <3> QED BY <2>2, <2>3, <3>2, <3>3, SeqEqual
  <2>5. \A i \in DOMAIN Numbers : Numbers[i] < solution
    BY <1>2 DEF Numbers, RInv, LedgerInv, Insert
  <2>6. solution > 0 /\ solution' = solution
    BY <1>2 DEF RInv, KindInv, Insert
  <2> QED BY <2>4, <2>5, <2>6 DEF Abstract!Record
<1>3. CASE RecorderStep /\ ~Insert
  BY <1>3 DEF RecorderStep, Connected, NotConnected, Refused, ExecFreed, Reply,
              Finish, Numbers
<1>4. CASE ServerTurns \/ UNCHANGED recorderVars
  BY <1>4 DEF ServerTurns, recorderVars, Numbers
<1> QED BY <1>1, <1>2, <1>3, <1>4 DEF RecorderNext

\* ImplementsLedger: at most one row for a message, in order, for good.
THEOREM LedgerImplemented == RecorderSpec => ImplementsLedger
<1>1. RecorderInit => Abstract!Init
  BY DEF RecorderInit, Abstract!Init, Numbers
<1> QED BY <1>1, RInit, RStep, LedgerImplStep, PTL
        DEF RecorderSpec, ImplementsLedger, Abstract!Spec

-----------------------------------------------------------------------------
(* What a ledger is worth *)

\* The rows of a ledger: in the order of the measurements, never two for one, and
\* not more than there were measurements.
LedgerOrder ==
    /\ solution \in Nat /\ Numbers \in Seq(Nat)
    /\ \A i \in DOMAIN Numbers : i <= Numbers[i] /\ Numbers[i] <= solution
    /\ \A i, j \in DOMAIN Numbers : i < j => Numbers[i] < Numbers[j]

\* This follows from the ledger alone, whatever the recorder does to keep it.
LEMMA LedgerOrderStep == LedgerOrder /\ [Abstract!Next]_(Abstract!vars) => LedgerOrder'
<1> SUFFICES ASSUME LedgerOrder, [Abstract!Next]_(Abstract!vars) PROVE LedgerOrder'
  OBVIOUS
<1> USE DEF LedgerOrder
<1>1. CASE Abstract!Arrive
  <2>1. solution' = solution + 1 /\ Numbers' = Numbers
    BY <1>1 DEF Abstract!Arrive
  <2>2. \A i \in DOMAIN Numbers : Numbers[i] \in Nat
    OBVIOUS
  <2> QED BY <2>1, <2>2
<1>2. CASE Abstract!Record
  <2> DEFINE n == Len(Numbers)
  <2>1. /\ Numbers' = Append(Numbers, solution) /\ solution' = solution /\ solution > 0
        /\ \A i \in DOMAIN Numbers : Numbers[i] < solution
    BY <1>2 DEF Abstract!Record
  <2>2. /\ Numbers' \in Seq(Nat) /\ n \in Nat
        /\ DOMAIN Numbers = 1..n /\ DOMAIN Numbers' = 1..n + 1
        /\ \A i \in 1..n : Numbers'[i] = Numbers[i] /\ Numbers[i] \in Nat
        /\ Numbers'[n + 1] = solution
    BY <2>1, AppendProperties
  <2>3. n + 1 <= solution
    <3>1. CASE n = 0
      BY <2>1, <3>1
    <3>2. CASE n > 0
      <4>1. n \in DOMAIN Numbers
        BY <2>2, <3>2
      <4> QED BY <2>1, <2>2, <4>1
    <3> QED BY <2>2, <3>1, <3>2
  <2> HIDE DEF n
  <2>4. \A i \in 1..n + 1 : i = n + 1 \/ i \in 1..n
    BY <2>2
  <2>5. \A i \in DOMAIN Numbers' : i <= Numbers'[i] /\ Numbers'[i] <= solution'
    BY <2>1, <2>2, <2>3, <2>4
  <2>6. \A i, j \in DOMAIN Numbers' : i < j => Numbers'[i] < Numbers'[j]
    <3> SUFFICES ASSUME NEW i \in 1..n + 1, NEW j \in 1..n + 1, i < j
                 PROVE  Numbers'[i] < Numbers'[j]
      BY <2>2
    <3>1. i \in 1..n
      BY <2>2
    <3>2. CASE j = n + 1
      BY <2>1, <2>2, <3>1, <3>2
    <3>3. CASE j \in 1..n
      BY <2>2, <3>1, <3>3
    <3> QED BY <2>4, <3>2, <3>3
  <2> QED BY <2>1, <2>2, <2>5, <2>6
<1>3. CASE UNCHANGED Abstract!vars
  BY <1>3 DEF Abstract!vars
<1> QED BY <1>1, <1>2, <1>3 DEF Abstract!Next

\* The rows of the table, each with the number of its message: in order, none twice,
\* none of a message that has not come.
RowsInOrder ==
    /\ Len(table) <= solution
    /\ \A i \in DOMAIN table : table[i].number <= solution
    /\ \A i, j \in DOMAIN table : i < j => table[i].number < table[j].number

\* A row that is in the table stays there as it is.
RowsStay == [][\A i \in DOMAIN table : i \in DOMAIN table' /\ table'[i] = table[i]]_table

\* At most one row for a message, in the order of the messages and for good: the
\* promise of the ledger, read off the refinement (display_nav_sol() 266-303).
THEOREM RowsOnce == RecorderSpec => []RowsInOrder /\ RowsStay
<1>1. Abstract!Init => LedgerOrder
  BY DEF Abstract!Init, LedgerOrder
<1>2. Abstract!Spec => []LedgerOrder
  BY <1>1, LedgerOrderStep, PTL DEF Abstract!Spec
<1>3. RInv /\ LedgerOrder => RowsInOrder
  <2> SUFFICES ASSUME RInv, LedgerOrder PROVE RowsInOrder
    OBVIOUS
  <2>1. table \in Rows /\ DOMAIN table = 1..Len(table) /\ Len(table) \in Nat
    BY RowType DEF RInv, RecorderTypeOK, Rows
  <2>2. DOMAIN Numbers = DOMAIN table /\ \A i \in DOMAIN table : Numbers[i] = table[i].number
    BY DEF Numbers
  <2>3. /\ solution \in Nat /\ \A i \in DOMAIN table : Numbers[i] \in Nat
        /\ \A i \in DOMAIN table : i <= Numbers[i] /\ Numbers[i] <= solution
        /\ \A i, j \in DOMAIN table : i < j => Numbers[i] < Numbers[j]
    BY <2>2 DEF LedgerOrder
  <2>4. Len(table) <= solution
    <3>1. CASE Len(table) = 0
      BY <2>3, <3>1
    <3>2. CASE Len(table) > 0
      <4>1. Len(table) \in DOMAIN table
        BY <2>1, <3>2
      <4> QED BY <2>1, <2>3, <4>1
    <3> QED BY <2>1, <3>1, <3>2
  <2> QED BY <2>2, <2>3, <2>4 DEF RowsInOrder
<1>4. RInv /\ [RecorderNext]_recorderVars =>
          [\A i \in DOMAIN table : i \in DOMAIN table' /\ table'[i] = table[i]]_table
  <2>1. [RecorderNext]_recorderVars => Insert \/ table' = table
    BY DEF RecorderNext, RecorderStep, recorderVars, Receive, Connected, NotConnected,
           Refused, ExecFreed, Reply, Finish, ServerTurns
  <2> QED BY <2>1, InsertedRow
<1> QED BY <1>2, <1>3, <1>4, RInit, RStep, LedgerImplemented, PTL
        DEF RecorderSpec, ImplementsLedger, RowsStay
=============================================================================
