---------------------------- MODULE Transactions ----------------------------
(***************************************************************************)
(* transaction() of the database manager, over each of the drivers. The    *)
(* SQLite connection is one handle that every task of the process shares;  *)
(* PostgreSQL and MySQL take a client of a pool for the whole call. In its *)
(* callback a task may call transaction() again, which goes to the         *)
(* manager's connection and never to the one of its context. Other tasks   *)
(* write meanwhile outside of any transaction.                             *)
(*                                                                         *)
(* The servers are external: a statement, a BEGIN or a COMMIT may be       *)
(* refused, a client may be lost, also after its COMMIT has taken effect,  *)
(* and PostgreSQL refuses every statement after a refused one and answers  *)
(* the COMMIT of such a transaction by rolling back.                       *)
(***************************************************************************)
EXTENDS Naturals, FiniteSets

CONSTANTS
    Tasks,      \* tasks that run a transaction
    Nesting,    \* those whose callback calls transaction() itself
    Writers,    \* tasks that write outside of any
    File,       \* the session of the SQLite handle
    Pool,       \* clients in the pool
    MaxWrites   \* bound: statements of one callback

\* <<t, 2>> is the call in the callback of <<t, 1>>.
Calls == (Tasks \X {1}) \cup (Nesting \X {2})
Sessions == Calls \cup {File}
Rows == (Calls \X (1 .. MaxWrites)) \cup Writers

ASSUME TransactionsAssumption ==
    /\ Nesting \subseteq Tasks
    /\ Pool \in Nat \ {0} /\ MaxWrites \in Nat \ {0}
    /\ Writers \cap (Calls \X (1 .. MaxWrites)) = {}
    /\ Writers \cap Calls = {} /\ File \notin Calls \cup Writers

VARIABLES
    kind,       \* driver of the connection
    pc,         \* [Calls -> where the call is]
    made,       \* [Calls -> the rows that its callback wrote]
    rows,       \* rows that are committed
    open,       \* sessions in a transaction
    dirty,      \* [Sessions -> its rows that are not committed]
    aborted,    \* calls that went on after PostgreSQL had refused a statement
    doubt,      \* calls that lost their client at COMMIT
    plain       \* [Writers -> the row written: "no", "alone" or "inside"]

vars == <<kind, pc, made, rows, open, dirty, aborted, doubt, plain>>

Pooled == kind # "sqlite"

\* Where the statements of a callback go.
Session(c) == IF Pooled THEN c ELSE File

Ended(c) == pc[c] \in {"returned", "threw"}
HoldersForget == {c \in Calls : Pooled /\ pc[c] \in {"begin", "work", "commit", "rollback", "threw"}}

\* The calls that have a client of the pool, which `finally` gives back.
Holders == {c \in Calls : Pooled /\ pc[c] \in {"begin", "work", "commit", "rollback"}}

\* The callback waits for the call within it.
Awaits(c) ==
    /\ c[2] = 1 /\ c[1] \in Nesting
    /\ pc[<<c[1], 2>>] # "idle" /\ ~Ended(<<c[1], 2>>)

Init ==
    /\ kind \in {"sqlite", "pg", "mysql"}
    /\ pc = [c \in Calls |-> "idle"]
    /\ made = [c \in Calls |-> {}]
    /\ rows = {} /\ open = {} /\ aborted = {} /\ doubt = {}
    /\ dirty = [s \in Sessions |-> {}]
    /\ plain = [w \in Writers |-> "no"]

TypeOK ==
    /\ kind \in {"sqlite", "pg", "mysql"}
    /\ pc \in [Calls -> {"idle", "connect", "begin", "work", "commit", "rollback",
                         "returned", "threw"}]
    /\ made \in [Calls -> SUBSET Rows]
    /\ rows \subseteq Rows
    /\ open \subseteq {Session(c) : c \in Calls}
    /\ dirty \in [Sessions -> SUBSET Rows] /\ \A s \in Sessions \ open : dirty[s] = {}
    /\ aborted \subseteq Calls /\ doubt \subseteq Calls
    /\ plain \in [Writers -> {"no", "alone", "inside"}]
    /\ Cardinality(Holders) <= Pool
    /\ ~Pooled => Cardinality({c \in Calls : pc[c] \in {"work", "commit"}}) <= 1

----------------------------------------------------------------------------
Goto(c, where) == pc' = [pc EXCEPT ![c] = where]

\* The session's transaction is over; its rows are in the table or gone.
Close(s, kept) ==
    /\ rows' = rows \cup kept
    /\ open' = open \ {s}
    /\ dirty' = [dirty EXCEPT ![s] = {}]

\* A row is written in the session, which commits it when in no transaction.
Put(s, row) ==
    /\ rows' = IF s \in open THEN rows ELSE rows \cup {row}
    /\ dirty' = IF s \in open THEN [dirty EXCEPT ![s] = @ \cup {row}] ELSE dirty

\* DatabaseManager.transaction()
Start(c) ==
    /\ pc[c] = "idle"
    /\ c[2] = 2 => pc[<<c[1], 1>>] = "work"
    /\ Goto(c, IF Pooled THEN "connect" ELSE "begin")
    /\ UNCHANGED <<kind, made, rows, open, dirty, aborted, doubt, plain>>

\* Mutant: the pool's size is no limit.
ConnectAnyway(c) ==
    /\ pc[c] = "connect"
    /\ Goto(c, "begin")
    /\ UNCHANGED <<kind, made, rows, open, dirty, aborted, doubt, plain>>

\* pool.connect(), which waits for a client without a limit of time.
Connect(c) ==
    /\ pc[c] = "connect" /\ Cardinality(Holders) < Pool
    /\ Goto(c, "begin")
    /\ UNCHANGED <<kind, made, rows, open, dirty, aborted, doubt, plain>>

\* Mutant: SQLite's BEGIN is inside the try.
BeginInside(c) ==
    /\ pc[c] = "begin"
    /\ \/ /\ Session(c) \notin open
          /\ open' = open \cup {Session(c)}
          /\ Goto(c, "work")
       \/ Goto(c, "rollback") /\ UNCHANGED open
    /\ UNCHANGED <<kind, made, rows, dirty, aborted, doubt, plain>>

\* BEGIN. It is before the try with SQLite, where it also fails while the
\* handle is in a transaction, and in the try with the pools.
Begin(c) ==
    /\ pc[c] = "begin"
    /\ \/ /\ Session(c) \notin open
          /\ open' = open \cup {Session(c)}
          /\ Goto(c, "work")
       \/ Goto(c, IF Pooled THEN "rollback" ELSE "threw") /\ UNCHANGED open
    /\ UNCHANGED <<kind, made, rows, dirty, aborted, doubt, plain>>

\* A statement of the callback.
Write(c) ==
    /\ pc[c] = "work" /\ ~Awaits(c) /\ c \notin aborted
    /\ Cardinality(made[c]) < MaxWrites
    /\ LET row == <<c, Cardinality(made[c]) + 1>> IN
          /\ made' = [made EXCEPT ![c] = @ \cup {row}]
          /\ Put(Session(c), row)
    /\ UNCHANGED <<kind, pc, open, aborted, doubt, plain>>

\* A statement is refused, and the callback catches the error.
Refused(c) ==
    /\ pc[c] = "work" /\ ~Awaits(c) /\ kind = "pg"
    /\ aborted' = aborted \cup {c}
    /\ UNCHANGED <<kind, pc, made, rows, open, dirty, doubt, plain>>

\* The callback ends, and throws or returns.
CallbackEnds(c) ==
    /\ pc[c] = "work" /\ ~Awaits(c)
    /\ Goto(c, "commit") \/ Goto(c, "rollback")
    /\ UNCHANGED <<kind, made, rows, open, dirty, aborted, doubt, plain>>

\* COMMIT. When it is refused the servers have rolled back, and SQLite is
\* still in the transaction.
Commit(c) ==
    LET s == Session(c) IN
    /\ pc[c] = "commit"
    /\ \/ /\ s \in open
          /\ Close(s, IF c \in aborted THEN {} ELSE dirty[s])
          /\ Goto(c, "returned")
       \/ /\ IF Pooled THEN Close(s, {}) ELSE UNCHANGED <<rows, open, dirty>>
          /\ Goto(c, "rollback")
    /\ UNCHANGED <<kind, made, aborted, doubt, plain>>

\* ROLLBACK, which without a transaction fails; the caller gets an error in
\* either case.
Rollback(c) ==
    /\ pc[c] = "rollback"
    /\ Close(Session(c), {})
    /\ Goto(c, "threw")
    /\ UNCHANGED <<kind, made, aborted, doubt, plain>>

\* The client is lost: the statement under way or the next one fails, the
\* COMMIT also when the server has done it.
LoseClient(c) ==
    /\ c \in Holders /\ pc[c] \in {"work", "commit"} /\ ~Awaits(c)
    /\ \/ Close(c, {})
       \/ pc[c] = "commit" /\ Close(c, IF c \in aborted THEN {} ELSE dirty[c])
    /\ doubt' = IF pc[c] = "commit" THEN doubt \cup {c} ELSE doubt
    /\ Goto(c, "rollback")
    /\ UNCHANGED <<kind, made, aborted, plain>>

\* query() of the manager's connection.
WritePlain(w) ==
    LET s == IF Pooled THEN w ELSE File IN
    /\ plain[w] = "no" /\ Cardinality(Holders) < Pool
    /\ Put(s, w)
    /\ plain' = [plain EXCEPT ![w] = IF s \in open THEN "inside" ELSE "alone"]
    /\ UNCHANGED <<kind, pc, made, open, aborted, doubt>>

CallStep(c) ==
    Connect(c) \/ Begin(c) \/ Write(c) \/ Refused(c) \/ CallbackEnds(c) \/ Commit(c) \/ Rollback(c)

Next ==
    \/ \E c \in Calls : CallStep(c) \/ Start(c) \/ LoseClient(c)
    \/ \E w \in Writers : WritePlain(w)

\* A call whose callback ends goes on.
Fairness ==
    \A c \in Calls : WF_vars(Connect(c)) /\ WF_vars(Begin(c)) /\ WF_vars(CallbackEnds(c))
                        /\ WF_vars(Commit(c)) /\ WF_vars(Rollback(c))

Spec == Init /\ [][Next]_vars /\ Fairness

----------------------------------------------------------------------------
\* The rows of a callback are kept all or not at all: all when the call has
\* returned, unless PostgreSQL rolled back what it was told to commit, and
\* none when it has thrown, unless its client was lost at COMMIT.
CallsAreAtomic ==
    \A c \in Calls : Ended(c) =>
        LET kept == made[c] \cap rows IN
        /\ kept \in {{}, made[c]}
        /\ pc[c] = "returned" /\ c \notin aborted => kept = made[c]
        /\ pc[c] = "threw" /\ c \notin doubt => kept = {}

\* A row written outside of any transaction stays, except one that went into
\* a transaction of another task over the shared handle.
OthersKept == \A w \in Writers : plain[w] = "alone" => w \in rows

(***************************************************************************)
(* transaction() is all or nothing and takes nobody else's row back,       *)
(* whatever calls of other tasks, or within its callback, begin, end or    *)
(* fail on the same connection meanwhile.                                  *)
(***************************************************************************)
AllOrNothing == CallsAreAtomic /\ OthersKept

(***************************************************************************)
(* Every call ends when the pool has more clients than there are tasks     *)
(* that need two: all of these may hold one while they wait for the other. *)
(***************************************************************************)
TransactionsEnd ==
    Pool > Cardinality(Nesting) => \A c \in Calls : pc[c] # "idle" ~> Ended(c)

=============================================================================
