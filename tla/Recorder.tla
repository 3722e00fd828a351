------------------------------ MODULE Recorder ------------------------------
(***************************************************************************)
(* The recording of a NAV-SOL message: display_nav_sol() of monitor_ubx.c, *)
(* which opens a connection to PostgreSQL for every message of 52 bytes,   *)
(* inserts a row and closes the connection.  The server, meanwhile, comes  *)
(* and goes: it ends the sessions it has, refuses connections, or refuses  *)
(* a statement.                                                            *)
(***************************************************************************)
EXTENDS Naturals, Sequences

CONSTANT MaxSolutions   \* bound: NAV-SOL messages in a behaviour

ASSUME MaxSolutionsAssumption == MaxSolutions \in Nat

VARIABLES
    at,         \* where display_nav_sol() is; "dead" if the process died in it
    solution,   \* the number of the NAV-SOL message in hand, or the last one
    kind,       \* of that message: "fix", "nofix", or "short" (not 52 bytes)
    conn,       \* what the pointer conn refers to
    sessions,   \* sessions of this client on the server
    server,     \* "up", "refusing" (statements) or "down"
    table,      \* the table "U-Blox": number and kind of the messages inserted
    complained, \* an error was printed to stderr for the message in hand
    failures    \* history: what failed for it, "connect" or "insert"

recorderVars == <<at, solution, kind, conn, sessions, server, table, complained,
                  failures>>

-----------------------------------------------------------------------------
(* display_nav_sol() *)

\* Mutation of Receive: no length check.
ReceiveAnyLength(k) ==
    /\ at = "idle" /\ solution < MaxSolutions
    /\ solution' = solution + 1 /\ kind' = k
    /\ at' = "connect"
    /\ complained' = FALSE /\ failures' = {}
    /\ UNCHANGED <<conn, sessions, server, table>>

\* The length check.  A message without a fix goes on like any other.
Receive(k) ==
    /\ at = "idle" /\ solution < MaxSolutions
    /\ solution' = solution + 1 /\ kind' = k
    /\ at' = IF k = "short" THEN "idle" ELSE "connect"
    /\ complained' = FALSE /\ failures' = {}
    /\ UNCHANGED <<conn, sessions, server, table>>

Connected ==
    /\ at = "connect" /\ server /= "down"
    /\ at' = "exec"
    /\ conn' = "open" /\ sessions' = sessions + 1
    /\ UNCHANGED <<solution, kind, server, table, complained, failures>>

\* PQconnectdb() gives a bad connection - the server is down or has no room for
\* one more client - which PQfinish() frees at once, or NULL, out of memory.
NotConnected ==
    /\ at = "connect"
    /\ at' = "exec"
    /\ conn' \in {"freed", "NULL"}
    /\ complained' = TRUE /\ failures' = {"connect"}
    /\ UNCHANGED <<solution, kind, sessions, server, table>>

\* Mutation of Insert: a statement that was refused is sent once more.
InsertTwice ==
    /\ at = "exec" /\ conn = "open" /\ sessions > 0 /\ server = "up"
    /\ at' \in {"exec", "reply"}
    /\ table' = Append(table, [number |-> solution, kind |-> kind])
    /\ UNCHANGED <<solution, kind, conn, sessions, server, complained, failures>>

\* PQexec(): the server inserts and commits the row.
Insert ==
    /\ at = "exec" /\ conn = "open" /\ sessions > 0 /\ server = "up"
    /\ at' = "reply"
    /\ table' = Append(table, [number |-> solution, kind |-> kind])
    /\ UNCHANGED <<solution, kind, conn, sessions, server, complained, failures>>

\* Mutation of Refused: only the message of a lost session is printed.
RefusedSilently ==
    /\ at = "exec"
    /\ conn = "NULL" \/ (conn = "open" /\ (sessions = 0 \/ server /= "up"))
    /\ at' = "finish"
    /\ complained' = (complained \/ sessions = 0)
    /\ failures' = failures \cup {"insert"}
    /\ UNCHANGED <<solution, kind, conn, sessions, server, table>>

\* Mutation of Refused: the connection is closed here, as where it fails.
RefusedCloses ==
    /\ at = "exec"
    /\ conn = "NULL" \/ (conn = "open" /\ (sessions = 0 \/ server /= "up"))
    /\ at' = "finish"
    /\ complained' = TRUE
    /\ failures' = failures \cup {"insert"}
    /\ conn' = IF conn = "open" THEN "freed" ELSE conn
    /\ sessions' = 0
    /\ UNCHANGED <<solution, kind, server, table>>

\* PQexec() fails: no connection, a lost session, or an error of the server.
Refused ==
    /\ at = "exec"
    /\ conn = "NULL" \/ (conn = "open" /\ (sessions = 0 \/ server /= "up"))
    /\ at' = "finish"
    /\ complained' = TRUE
    /\ failures' = failures \cup {"insert"}
    /\ UNCHANGED <<solution, kind, conn, sessions, server, table>>

\* PQexec() on a connection that PQfinish() has freed: undefined.
ExecFreed ==
    /\ at = "exec" /\ conn = "freed"
    /\ at' \in {"finish", "dead"}
    /\ UNCHANGED <<solution, kind, conn, sessions, server, table, complained,
                   failures>>

\* The reply.  RETURNING makes it PGRES_TUPLES_OK, so the error branch is taken
\* even then; the error message is empty unless the session was lost.
Reply ==
    /\ at = "reply"
    /\ at' = "finish"
    /\ complained' = (sessions = 0)
    /\ UNCHANGED <<solution, kind, conn, sessions, server, table, failures>>

\* Mutation of Finish: the connection is not closed.
FinishNot ==
    /\ at = "finish"
    /\ at' = "idle"
    /\ UNCHANGED <<solution, kind, conn, sessions, server, table, complained, failures>>

\* PQfinish(): closes an open connection; a second one for a freed connection
\* is undefined.
Finish ==
    /\ at = "finish"
    /\ at' \in IF conn = "freed" THEN {"idle", "dead"} ELSE {"idle"}
    /\ conn' = IF conn = "NULL" THEN "NULL" ELSE "freed"
    /\ sessions' = IF conn = "open" /\ sessions > 0 THEN sessions - 1 ELSE sessions
    /\ UNCHANGED <<solution, kind, server, table, complained, failures>>

-----------------------------------------------------------------------------
(* The server *)

Dead == at = "dead"

ServerTurns ==
    /\ ~Dead
    /\ server' \in {"up", "refusing", "down"} \ {server}
    /\ sessions' = IF server' = "down" THEN 0 ELSE sessions
    /\ UNCHANGED <<at, solution, kind, conn, table, complained, failures>>

RecorderInit ==
    /\ at = "idle" /\ solution = 0 /\ kind = "short"
    /\ conn = "NULL" /\ sessions = 0
    /\ server \in {"up", "refusing", "down"}
    /\ table = <<>> /\ complained = FALSE /\ failures = {}

RecorderStep ==
    \/ Connected \/ NotConnected \/ Insert \/ Refused \/ ExecFreed \/ Reply \/ Finish

RecorderNext ==
    \/ (\E k \in {"fix", "nofix", "short"} : Receive(k))
    \/ RecorderStep
    \/ ServerTurns

RecorderSpec == RecorderInit /\ [][RecorderNext]_recorderVars

-----------------------------------------------------------------------------
(* Properties *)

RecorderTypeOK ==
    /\ at \in {"idle", "connect", "exec", "reply", "finish", "dead"}
    /\ solution \in 0..MaxSolutions
    /\ kind \in {"fix", "nofix", "short"}
    /\ conn \in {"NULL", "open", "freed"}
    /\ sessions \in Nat
    /\ server \in {"up", "refusing", "down"}
    /\ table \in Seq([number : 1..MaxSolutions, kind : {"fix", "nofix"}])
    /\ complained \in BOOLEAN
    /\ failures \subseteq {"connect", "insert"}

\* The rows of the table, by the number of their message.
Numbers == [i \in DOMAIN table |-> table[i].number]

Abstract == INSTANCE Ledger WITH seen <- solution, rows <- Numbers

\* The table is a ledger: a message makes at most one row, rows come in the
\* order of the messages, and none is lost afterwards, whatever the server and
\* the freed connection do (display_nav_sol(), 266-303).
ImplementsLedger == Abstract!Spec

\* When display_nav_sol() has returned, the row of a message is in the table
\* unless connecting or inserting failed; and a message without a row has had
\* an error printed (276-300).
RowOrComplaint ==
    at = "idle" /\ kind /= "short" =>
        \/ table /= <<>> /\ table[Len(table)].number = solution
        \/ failures /= {} /\ complained

\* One connection per message, closed on every path before the next one: the
\* server never holds a second session, nor one between messages (274, 303).
SessionsAreClosed == sessions <= 1 /\ (at = "idle" => sessions = 0)

\* The freed connection is the only one that can kill the process: a refused
\* statement, a session that is lost under it and a server that goes away
\* leave a connection that PQfinish() closes once (298-303).
DiesOnlyOfConnect == Dead => "connect" \in failures

\* "Check for a failed connection to the database" (276): no statement is sent
\* on a connection that has failed.
ConnectionIsChecked == at = "exec" => conn /= "freed"

\* The SQL statements are about "the state of a U-Blox receiver that has
\* successfully determined its position" (README.md:11): a row comes from a fix.
RowsHaveFix == \A i \in DOMAIN table : table[i].kind = "fix"
=============================================================================
