------------------------ MODULE Transactions_proofs ------------------------
(***************************************************************************)
(* transaction() is all or nothing, for any tasks, any size of the pool    *)
(* and any number of statements. The invariant says where the rows of a    *)
(* callback are: in the session of its call alone, as long as the call is  *)
(* in its transaction, and in the table either all or not at all when it   *)
(* is over. On the one handle of SQLite it needs that no second call is in *)
(* a transaction, which is what the refused BEGIN is for.                  *)
(***************************************************************************)
EXTENDS Transactions, FiniteSetTheorems, TLAPS

InTransaction(c) == pc[c] \in {"work", "commit", "rollback"}

\* What the variables are, but for the counts of TypeOK.
Types ==
    /\ kind \in {"sqlite", "pg", "mysql"}
    /\ pc \in [Calls -> {"idle", "connect", "begin", "work", "commit", "rollback",
                         "returned", "threw"}]
    /\ made \in [Calls -> SUBSET Rows]
    /\ \A c \in Calls : made[c] \subseteq {c} \X (1 .. MaxWrites)
    /\ rows \subseteq Rows
    /\ open \subseteq {Session(c) : c \in Calls}
    /\ dirty \in [Sessions -> SUBSET Rows] /\ \A s \in Sessions \ open : dirty[s] = {}
    /\ aborted \subseteq Calls /\ doubt \subseteq Calls
    /\ plain \in [Writers -> {"no", "alone", "inside"}]

\* No more clients are held than the pool has.
PoolBounded == IsFiniteSet(Holders) /\ Cardinality(Holders) <= Pool

\* On the handle of SQLite one call at a time is in a transaction.
Alone ==
    ~Pooled =>
        /\ \A c, d \in Calls : InTransaction(c) /\ InTransaction(d) => c = d
        /\ \A c \in Calls : InTransaction(c) => File \in open

\* Every row is one that some callback, or a writer, wrote.
RowsMade ==
    /\ \A row \in rows : row \in Writers \/ \E c \in Calls : row \in made[c]
    /\ \A s \in Sessions : \A row \in dirty[s] : row \in Writers \/ \E c \in Calls : row \in made[c]

\* Where the rows of a callback are.
Kept(c) ==
    /\ pc[c] \in {"idle", "connect", "begin"} => made[c] = {}
    /\ pc[c] \in {"work", "commit"} =>
          Session(c) \in open /\ made[c] \subseteq dirty[Session(c)] /\ made[c] \cap rows = {}
    /\ pc[c] \in {"rollback", "threw"} =>
          made[c] \cap rows \in {{}, made[c]} /\ (c \notin doubt => made[c] \cap rows = {})
    /\ pc[c] = "returned" =>
          made[c] \cap rows \in {{}, made[c]} /\ (c \notin aborted => made[c] \cap rows = made[c])
    /\ c \in doubt => pc[c] \in {"rollback", "threw"}
    /\ \A s \in Sessions : dirty[s] \cap made[c] # {} => s = Session(c) /\ InTransaction(c)

IInv ==
    /\ Types /\ PoolBounded /\ Alone /\ RowsMade /\ OthersKept
    /\ \A c \in Calls : Kept(c)

----------------------------------------------------------------------------
(* What a call does to the others *)

\* Two calls that are in a transaction are in different sessions.
LEMMA SessionsDiffer ==
    ASSUME IInv, NEW c \in Calls, NEW d \in Calls, c # d, InTransaction(c), InTransaction(d)
    PROVE  Session(c) # Session(d)
BY DEF IInv, Alone, Session, Pooled

\* A session is a call's own, or the handle.
LEMMA SessionType ==
    ASSUME NEW c \in Calls
    PROVE  Session(c) \in Sessions
BY DEF Session, Sessions

\* A call goes from one place to another and writes nothing: to wait for a
\* client, to a BEGIN that is refused, to its COMMIT or its ROLLBACK.
LEMMA GotoKeeps ==
    ASSUME IInv, NEW c \in Calls,
           NEW where \in {"connect", "begin", "commit", "rollback", "threw"}, Goto(c, where),
           UNCHANGED <<kind, made, rows, open, dirty, aborted, doubt, plain>>,
           PoolBounded',
           \/ pc[c] \in {"idle", "connect"} /\ where \in {"connect", "begin"}
           \/ pc[c] = "begin" /\ where = IF Pooled THEN "rollback" ELSE "threw"
           \/ pc[c] \in {"work", "commit"} /\ where \in {"commit", "rollback"}
    PROVE  IInv'
<1>1. pc' = [pc EXCEPT ![c] = where] /\ pc \in [Calls -> {"idle", "connect", "begin", "work",
            "commit", "rollback", "returned", "threw"}]
  BY DEF Goto, IInv, Types
<1>2. Pooled' = Pooled /\ \A d \in Calls : Session(d)' = Session(d)
  BY DEF Pooled, Session
<1>3. Types'
  BY <1>1, <1>2 DEF IInv, Types
<1>4. \A d \in Calls : InTransaction(d)' => InTransaction(d) \/ (Pooled /\ d = c)
  BY <1>1 DEF InTransaction
<1>5. \A d \in Calls : InTransaction(d) => InTransaction(d)'
  BY <1>1 DEF InTransaction
<1>6. Alone'
  BY <1>2, <1>4 DEF IInv, Alone
<1>7. ASSUME NEW d \in Calls
      PROVE  Kept(d)'
  <2>1. CASE d = c
    BY <1>1, <1>2, <1>5, <2>1 DEF IInv, Kept
  <2>2. CASE d # c
    BY <1>1, <1>2, <1>5, <2>2 DEF IInv, Kept
  <2> QED BY <2>1, <2>2
<1> QED BY <1>3, <1>6, <1>7 DEF IInv, RowsMade, OthersKept

\* The transaction of a call is over, and all that is in its session is in
\* the table, or none of it.
LEMMA CloseKeeps ==
    ASSUME IInv, NEW c \in Calls, InTransaction(c),
           NEW kept \in {{}, dirty[Session(c)]}, Close(Session(c), kept),
           NEW where \in {"returned", "rollback", "threw"}, Goto(c, where),
           UNCHANGED <<kind, made, aborted, plain>>,
           doubt' \in {doubt, doubt \cup {c}}, doubt' # doubt => pc[c] = "commit",
           PoolBounded',
           where = "rollback" => Pooled,
           where = "returned" => pc[c] = "commit" /\ (c \in aborted \/ kept = dirty[Session(c)]),
           kept # {} => pc[c] = "commit" /\ (where = "returned" \/ c \in doubt'),
           c \in doubt' => where # "returned"
    PROVE  IInv'
<1> DEFINE s == Session(c)
<1>1. /\ pc' = [pc EXCEPT ![c] = where]
      /\ pc \in [Calls -> {"idle", "connect", "begin", "work", "commit", "rollback",
                           "returned", "threw"}]
      /\ rows' = rows \cup kept /\ open' = open \ {s} /\ dirty' = [dirty EXCEPT ![s] = {}]
      /\ dirty \in [Sessions -> SUBSET Rows] /\ s \in Sessions
  BY SessionType DEF Goto, Close, IInv, Types
<1>2. Pooled' = Pooled /\ \A d \in Calls : Session(d)' = Session(d)
  BY DEF Pooled, Session
<1>3. kept \subseteq dirty[s] /\ dirty'[s] = {} /\ \A q \in Sessions \ {s} : dirty'[q] = dirty[q]
  BY <1>1
<1>4. \A d \in Calls \ {c} : pc'[d] = pc[d] /\ (InTransaction(d)' <=> InTransaction(d))
  BY <1>1 DEF InTransaction
<1>5. pc'[c] = where /\ (InTransaction(c)' <=> where = "rollback")
  BY <1>1 DEF InTransaction
<1> HIDE DEF s
<1>6. Types'
  <2>1. \A q \in Sessions \ open' : dirty'[q] = {}
    BY <1>1, <1>3 DEF IInv, Types
  <2>2. /\ rows' \subseteq Rows /\ dirty' \in [Sessions -> SUBSET Rows]
        /\ doubt' \subseteq Calls
    BY <1>1, <1>3 DEF IInv, Types
  <2>3. open' \subseteq {Session(d)' : d \in Calls}
    BY <1>1, <1>2 DEF IInv, Types
  <2> QED BY <1>1, <2>1, <2>2, <2>3 DEF IInv, Types
<1>7. Alone'
  <2> SUFFICES ASSUME ~Pooled, NEW d \in Calls, InTransaction(d)'
               PROVE  FALSE
    BY <1>2 DEF Alone
  <2>1. d # c
    BY <1>5
  <2> QED BY <1>4, <2>1 DEF IInv, Alone
<1>8. RowsMade'
  BY <1>1, <1>3 DEF IInv, RowsMade
<1>9. OthersKept'
  BY <1>1 DEF IInv, OthersKept
<1>10. ASSUME NEW d \in Calls \ {c}
       PROVE  Kept(d)'
  <2>1. dirty[s] \cap made[d] = {}
    BY SessionsDiffer, <1>1 DEF IInv, Kept, s
  <2>2. made[d] \cap rows' = made[d] \cap rows
    BY <1>1, <1>3, <2>1
  <2>3. InTransaction(d) => Session(d) # s
    BY SessionsDiffer DEF s
  <2>4. /\ pc'[d] = pc[d] /\ Kept(d) /\ Session(d)' = Session(d) /\ Session(d) \in Sessions
        /\ d \in doubt' <=> d \in doubt
    BY <1>2, <1>4, SessionType DEF IInv
  <2>5. pc[d] \in {"work", "commit"} => Session(d) \in open' /\ made[d] \subseteq dirty'[Session(d)]
    BY <1>1, <1>3, <2>3, <2>4 DEF Kept, InTransaction
  <2>6. \A q \in Sessions : dirty'[q] \cap made[d] # {} => q = Session(d) /\ InTransaction(d)'
    BY <1>3, <1>4, <2>4 DEF Kept
  <2> QED BY <2>2, <2>4, <2>5, <2>6 DEF Kept
<1>11. Kept(c)'
  <2>1. Kept(c) /\ Session(c)' = s /\ (c \in doubt => pc[c] = "rollback" \/ pc[c] = "threw")
    BY <1>2 DEF IInv, Kept, s
  <2>2. \A q \in Sessions : dirty'[q] \cap made[c] = {}
    BY <1>3, <2>1 DEF Kept, s
  <2>3. kept = {} => made[c] \cap rows' = made[c] \cap rows
    BY <1>1
  <2>4. kept # {} => made[c] \cap rows' = made[c]
    BY <1>1, <2>1 DEF Kept, s
  <2>5. made[c] \cap rows' \in {{}, made[c]}
    BY <2>1, <2>3, <2>4 DEF Kept, InTransaction
  <2>6. c \notin doubt' /\ where # "returned" => made[c] \cap rows' = {}
    BY <2>1, <2>3 DEF Kept, InTransaction
  <2>7. where = "returned" /\ c \notin aborted => made[c] \cap rows' = made[c]
    <3>1. kept = dirty[s] /\ kept = {} /\ pc[c] = "commit" => made[c] = {}
      BY <2>1 DEF Kept, s
    <3> QED BY <2>4, <3>1 DEF s
  <2>8. c \in doubt' => where \in {"rollback", "threw"}
    OBVIOUS
  <2> QED BY <1>5, <2>2, <2>5, <2>6, <2>7, <2>8 DEF Kept
<1> QED BY <1>6, <1>7, <1>8, <1>9, <1>10, <1>11 DEF IInv

----------------------------------------------------------------------------
(* The steps of a call *)

\* The clients that are held change by one at most.
LEMMA HoldersChange ==
    ASSUME IInv, NEW c \in Calls, NEW where, Goto(c, where), kind' = kind
    PROVE  /\ Holders' \in SUBSET (Holders \cup {c})
           /\ IsFiniteSet(Holders')
           /\ c \in Holders \/ where \notin {"begin", "work", "commit", "rollback"} \/ ~Pooled
                 => PoolBounded'
<1>1. \A d \in Calls : d # c => (d \in Holders' <=> d \in Holders)
  BY DEF Goto, Holders, Pooled, IInv, Types
<1>2. Holders' \subseteq Holders \cup {c}
  BY <1>1 DEF Holders
<1>3. IsFiniteSet(Holders) /\ IsFiniteSet(Holders \cup {c})
  BY FS_AddElement DEF IInv, PoolBounded
<1>4. IsFiniteSet(Holders')
  BY <1>2, <1>3, FS_Subset
<1>5. ASSUME c \in Holders \/ where \notin {"begin", "work", "commit", "rollback"} \/ ~Pooled
      PROVE  PoolBounded'
  <2>1. c \in Holders' => c \in Holders
    BY <1>5 DEF Goto, Holders, Pooled, IInv, Types
  <2>2. Holders' \subseteq Holders
    BY <1>2, <2>1
  <2>3. Cardinality(Holders') <= Cardinality(Holders)
    BY <1>3, <2>2, FS_Subset
  <2>4. Cardinality(Holders) \in Nat /\ Cardinality(Holders') \in Nat
    BY <1>3, <1>4, FS_CardinalityType
  <2> QED BY <1>4, <2>3, <2>4, TransactionsAssumption DEF PoolBounded, IInv
<1> QED BY <1>2, <1>4, <1>5

LEMMA StartKeeps ==
    ASSUME IInv, NEW c \in Calls, Start(c)
    PROVE  IInv'
<1>1. /\ pc[c] = "idle" /\ Goto(c, IF Pooled THEN "connect" ELSE "begin")
      /\ UNCHANGED <<kind, made, rows, open, dirty, aborted, doubt, plain>>
  BY DEF Start
<1>2. PoolBounded'
  BY <1>1, HoldersChange
<1> QED BY <1>1, <1>2, GotoKeeps

\* connect() takes a client only when one is left.
LEMMA ConnectKeeps ==
    ASSUME IInv, NEW c \in Calls, Connect(c)
    PROVE  IInv'
<1>1. /\ pc[c] = "connect" /\ Goto(c, "begin") /\ Cardinality(Holders) < Pool
      /\ UNCHANGED <<kind, made, rows, open, dirty, aborted, doubt, plain>>
  BY DEF Connect
<1>2. IsFiniteSet(Holders) /\ IsFiniteSet(Holders') /\ Holders' \subseteq Holders \cup {c}
  BY <1>1, HoldersChange DEF IInv, PoolBounded
<1>3. /\ IsFiniteSet(Holders \cup {c})
      /\ Cardinality(Holders \cup {c}) <= Cardinality(Holders) + 1
      /\ Cardinality(Holders) \in Nat
  <2>1. Cardinality(Holders) \in Nat
    BY <1>2, FS_CardinalityType
  <2>2. /\ IsFiniteSet(Holders \cup {c})
        /\ Cardinality(Holders \cup {c}) =
              IF c \in Holders THEN Cardinality(Holders) ELSE Cardinality(Holders) + 1
    BY <1>2, FS_AddElement
  <2> QED BY <2>1, <2>2
<1>4. Cardinality(Holders') <= Cardinality(Holders \cup {c}) /\ Cardinality(Holders') \in Nat
      /\ Cardinality(Holders \cup {c}) \in Nat
  BY <1>2, <1>3, FS_Subset, FS_CardinalityType
<1>5. PoolBounded'
  BY <1>1, <1>2, <1>3, <1>4, TransactionsAssumption DEF PoolBounded
<1> QED BY <1>1, <1>5, GotoKeeps

\* BEGIN: nobody else is in a transaction of the session.
LEMMA BeginKeeps ==
    ASSUME IInv, NEW c \in Calls, Begin(c)
    PROVE  IInv'
<1>1. /\ pc[c] = "begin" /\ UNCHANGED <<kind, made, rows, dirty, aborted, doubt, plain>>
      /\ pc \in [Calls -> {"idle", "connect", "begin", "work", "commit", "rollback",
                           "returned", "threw"}]
  BY DEF Begin, IInv, Types
<1>2. CASE Goto(c, IF Pooled THEN "rollback" ELSE "threw") /\ UNCHANGED open
  <2>1. c \in Holders \/ ~Pooled
    BY <1>1 DEF Holders
  <2>2. PoolBounded'
    BY <1>1, <1>2, <2>1, HoldersChange
  <2> QED BY <1>1, <1>2, <2>2, GotoKeeps
<1>3. CASE Session(c) \notin open /\ open' = open \cup {Session(c)} /\ Goto(c, "work")
  <2>1. pc' = [pc EXCEPT ![c] = "work"]
    BY <1>3 DEF Goto
  <2>2. Pooled' = Pooled /\ \A d \in Calls : Session(d)' = Session(d)
    BY <1>1 DEF Pooled, Session
  <2>3. c \in Holders \/ ~Pooled
    BY <1>1 DEF Holders
  <2>4. PoolBounded'
    BY <1>1, <1>3, <2>3, HoldersChange
  <2>5. open' \subseteq {Session(d)' : d \in Calls}
    BY <1>3, <2>2 DEF IInv, Types
  <2>6. Types'
    BY <1>1, <1>3, <2>1, <2>5 DEF IInv, Types
  <2>7. \A d \in Calls \ {c} : pc'[d] = pc[d] /\ (InTransaction(d)' <=> InTransaction(d))
    BY <1>1, <2>1 DEF InTransaction
  <2>8. Alone'
    BY <1>3, <2>2, <2>7 DEF IInv, Alone, Session
  <2>9. ASSUME NEW d \in Calls \ {c}
        PROVE  Kept(d)'
    BY <1>1, <1>3, <2>2, <2>7 DEF IInv, Kept
  <2>10. Kept(c)'
    <3>1. pc'[c] = "work" /\ made[c] = {} /\ c \notin doubt /\ Session(c)' \in open'
      BY <1>1, <1>3, <2>1, <2>2 DEF IInv, Kept
    <3> QED BY <1>1, <3>1 DEF Kept
  <2> QED BY <1>1, <2>4, <2>6, <2>8, <2>9, <2>10 DEF IInv, RowsMade, OthersKept
<1> QED BY <1>2, <1>3 DEF Begin

\* A statement of a callback goes to the session of its call, and nowhere
\* else.
LEMMA WriteKeeps ==
    ASSUME IInv, NEW c \in Calls, Write(c)
    PROVE  IInv'
<1> DEFINE row == <<c, Cardinality(made[c]) + 1>>
           s == Session(c)
<1>1. /\ pc[c] = "work" /\ Cardinality(made[c]) < MaxWrites
      /\ made' = [made EXCEPT ![c] = @ \cup {row}] /\ Put(s, row)
      /\ UNCHANGED <<kind, pc, open, aborted, doubt, plain>>
  BY DEF Write
<1>2. row \in {c} \X (1 .. MaxWrites)
  <2>1. IsFiniteSet({c} \X (1 .. MaxWrites))
    <3>1. IsFiniteSet({c})
      BY FS_Singleton
    <3>2. IsFiniteSet(1 .. MaxWrites)
      BY FS_Interval, TransactionsAssumption
    <3> QED BY <3>1, <3>2, FS_Product
  <2>2. IsFiniteSet(made[c])
    BY <2>1, FS_Subset DEF IInv, Types
  <2>3. Cardinality(made[c]) \in Nat
    BY <2>2, FS_CardinalityType
  <2> QED BY <1>1, <2>3, TransactionsAssumption
<1>3. row \in Rows /\ row \notin Writers /\ row[1] = c
  BY <1>2, TransactionsAssumption DEF Rows
<1> HIDE DEF row
<1>4. /\ s \in open /\ s \in Sessions /\ Kept(c)
      /\ rows' = rows /\ dirty' = [dirty EXCEPT ![s] = @ \cup {row}]
      /\ dirty \in [Sessions -> SUBSET Rows] /\ made \in [Calls -> SUBSET Rows]
  BY <1>1, SessionType DEF IInv, Kept, Put, Types
<1>5. Pooled' = Pooled /\ \A d \in Calls : /\ Session(d)' = Session(d)
                                           /\ InTransaction(d)' <=> InTransaction(d)
  BY <1>1 DEF Pooled, Session, InTransaction
<1> HIDE DEF s
<1>6. /\ made'[c] = made[c] \cup {row} /\ \A d \in Calls \ {c} : made'[d] = made[d]
      /\ dirty'[s] = dirty[s] \cup {row} /\ \A q \in Sessions \ {s} : dirty'[q] = dirty[q]
  BY <1>1, <1>4
<1>7. Types'
  <2>1. dirty' \in [Sessions -> SUBSET Rows] /\ made' \in [Calls -> SUBSET Rows]
    BY <1>1, <1>3, <1>4
  <2>2. \A d \in Calls : made'[d] \subseteq {d} \X (1 .. MaxWrites)
    BY <1>2, <1>6 DEF IInv, Types
  <2>3. \A q \in Sessions \ open' : dirty'[q] = {}
    BY <1>1, <1>4, <1>6 DEF IInv, Types
  <2>4. open' \subseteq {Session(d)' : d \in Calls}
    BY <1>1, <1>5 DEF IInv, Types
  <2> QED BY <1>1, <1>4, <2>1, <2>2, <2>3, <2>4 DEF IInv, Types
<1>8. PoolBounded' /\ Alone'
  <2>1. Holders' = Holders
    BY <1>1 DEF Holders, Pooled
  <2> QED BY <1>1, <1>5, <2>1 DEF IInv, PoolBounded, Alone
<1>9. RowsMade'
  BY <1>4, <1>6 DEF IInv, RowsMade
<1>10. OthersKept'
  BY <1>1, <1>4 DEF IInv, OthersKept
<1>11. ASSUME NEW d \in Calls \ {c}
       PROVE  Kept(d)'
  <2>1. Kept(d) /\ row \notin made[d]
    BY <1>3 DEF IInv, Types
  <2>2. \A q \in Sessions : /\ dirty'[q] \cap made[d] = dirty[q] \cap made[d]
                            /\ dirty[q] \subseteq dirty'[q]
    BY <1>6, <2>1
  <2> QED BY <1>1, <1>4, <1>5, <1>6, <2>1, <2>2, SessionType DEF Kept
<1>12. Kept(c)'
  <2>1. row \notin rows \/ row \in made[c]
    <3>1. \A d \in Calls : row \in made[d] => d = c
      BY <1>3 DEF IInv, Types
    <3> QED BY <1>3, <3>1 DEF IInv, RowsMade
  <2>2. made'[c] \cap rows' = {}
    BY <1>1, <1>4, <1>6, <2>1 DEF Kept
  <2>3. \A q \in Sessions : dirty'[q] \cap made'[c] # {} => q = s
    <3>1. ASSUME NEW q \in Sessions \ {s}
          PROVE  dirty[q] \cap made[c] = {} /\ row \notin dirty[q]
      <4>1. dirty[q] \cap made[c] = {}
        BY <1>4, <3>1 DEF Kept, s
      <4>2. row \in dirty[q] => row \in made[c]
        BY <1>3 DEF IInv, RowsMade, Types
      <4> QED BY <4>1, <4>2
    <3> QED BY <1>6, <3>1
  <2>4. made'[c] \subseteq dirty'[s]
    BY <1>1, <1>4, <1>6 DEF Kept, s
  <2>5. pc'[c] = "work" /\ Session(c)' = s /\ s \in open' /\ InTransaction(c)' /\ c \notin doubt'
    BY <1>1, <1>4, <1>5 DEF s, InTransaction, Kept
  <2> QED BY <2>2, <2>3, <2>4, <2>5 DEF Kept
<1> QED BY <1>7, <1>8, <1>9, <1>10, <1>11, <1>12 DEF IInv

\* A refused statement changes nothing but what COMMIT will do.
LEMMA RefusedKeeps ==
    ASSUME IInv, NEW c \in Calls, Refused(c)
    PROVE  IInv'
<1>1. /\ pc[c] = "work" /\ aborted' = aborted \cup {c}
      /\ UNCHANGED <<kind, pc, made, rows, open, dirty, doubt, plain>>
  BY DEF Refused
<1>2. /\ Pooled' = Pooled /\ Holders' = Holders
      /\ \A d \in Calls : Session(d)' = Session(d) /\ (InTransaction(d)' <=> InTransaction(d))
  BY <1>1 DEF Pooled, Holders, Session, InTransaction
<1>3. Types'
  <2>1. open' \subseteq {Session(d)' : d \in Calls}
    BY <1>1, <1>2 DEF IInv, Types
  <2> QED BY <1>1, <2>1 DEF IInv, Types
<1>4. PoolBounded' /\ Alone'
  BY <1>1, <1>2 DEF IInv, PoolBounded, Alone
<1>5. \A d \in Calls : Kept(d)'
  BY <1>1, <1>2 DEF IInv, Kept
<1> QED BY <1>1, <1>3, <1>4, <1>5 DEF IInv, RowsMade, OthersKept

LEMMA CallbackEndsKeeps ==
    ASSUME IInv, NEW c \in Calls, CallbackEnds(c)
    PROVE  IInv'
<1>1. PICK where \in {"commit", "rollback"} :
         /\ pc[c] = "work" /\ Goto(c, where)
         /\ UNCHANGED <<kind, made, rows, open, dirty, aborted, doubt, plain>>
  BY DEF CallbackEnds
<1>2. c \in Holders \/ ~Pooled
  BY <1>1 DEF Holders
<1>3. PoolBounded'
  BY <1>1, <1>2, HoldersChange
<1> QED BY <1>1, <1>3, GotoKeeps

LEMMA CommitKeeps ==
    ASSUME IInv, NEW c \in Calls, Commit(c)
    PROVE  IInv'
<1>1. pc[c] = "commit" /\ InTransaction(c) /\ UNCHANGED <<kind, made, aborted, doubt, plain>>
  BY DEF Commit, InTransaction
<1>2. (c \in Holders \/ ~Pooled) /\ c \notin doubt
  BY <1>1 DEF Holders, IInv, Kept
<1>3. ASSUME Goto(c, "returned"), Close(Session(c), IF c \in aborted THEN {} ELSE dirty[Session(c)])
      PROVE  IInv'
  <2>1. PoolBounded'
    BY <1>1, <1>2, <1>3, HoldersChange
  <2>2. PICK kept \in {{}, dirty[Session(c)]} :
           Close(Session(c), kept) /\ (c \in aborted \/ kept = dirty[Session(c)])
    BY <1>3
  <2> QED BY <1>1, <1>2, <1>3, <2>1, <2>2, CloseKeeps
<1>4. ASSUME Goto(c, "rollback"), Pooled, Close(Session(c), {})
      PROVE  IInv'
  <2>1. PoolBounded'
    BY <1>1, <1>2, <1>4, HoldersChange
  <2> QED BY <1>1, <1>4, <2>1, CloseKeeps
<1>5. ASSUME Goto(c, "rollback"), UNCHANGED <<rows, open, dirty>>
      PROVE  IInv'
  <2>1. PoolBounded'
    BY <1>1, <1>2, <1>5, HoldersChange
  <2> QED BY <1>1, <1>5, <2>1, GotoKeeps
<1> QED BY <1>3, <1>4, <1>5 DEF Commit

LEMMA RollbackKeeps ==
    ASSUME IInv, NEW c \in Calls, Rollback(c)
    PROVE  IInv'
<1>1. /\ pc[c] = "rollback" /\ InTransaction(c) /\ Close(Session(c), {}) /\ Goto(c, "threw")
      /\ UNCHANGED <<kind, made, aborted, doubt, plain>>
  BY DEF Rollback, InTransaction
<1>2. PoolBounded'
  BY <1>1, HoldersChange
<1> QED BY <1>1, <1>2, CloseKeeps

\* The client is lost: the server has rolled back, or, at COMMIT, may have
\* done it.
LEMMA LoseClientKeeps ==
    ASSUME IInv, NEW c \in Calls, LoseClient(c)
    PROVE  IInv'
<1>1. /\ c \in Holders /\ pc[c] \in {"work", "commit"} /\ Goto(c, "rollback")
      /\ doubt' = IF pc[c] = "commit" THEN doubt \cup {c} ELSE doubt
      /\ UNCHANGED <<kind, made, aborted, plain>>
  BY DEF LoseClient
<1>2. InTransaction(c) /\ Pooled /\ Session(c) = c
  BY <1>1 DEF InTransaction, Holders, Session
<1>3. PoolBounded'
  BY <1>1, HoldersChange
<1>4. PICK kept \in {{}, dirty[Session(c)]} :
         Close(Session(c), kept) /\ (kept # {} => pc[c] = "commit")
  <2>1. CASE Close(c, {})
    BY <1>2, <2>1
  <2>2. CASE pc[c] = "commit" /\ Close(c, IF c \in aborted THEN {} ELSE dirty[c])
    BY <1>2, <2>2
  <2> QED BY <2>1, <2>2 DEF LoseClient
<1>5. /\ doubt' \in {doubt, doubt \cup {c}} /\ (doubt' # doubt => pc[c] = "commit")
      /\ pc[c] = "commit" => c \in doubt'
  BY <1>1
<1> QED BY <1>1, <1>2, <1>3, <1>4, <1>5, CloseKeeps

\* A row of another task goes to the table, or into the transaction on the
\* handle, where it is no row of the callback.
LEMMA WritePlainKeeps ==
    ASSUME IInv, NEW w \in Writers, WritePlain(w)
    PROVE  IInv'
<1> DEFINE s == IF Pooled THEN w ELSE File
<1>1. /\ Put(s, w) /\ plain' = [plain EXCEPT ![w] = IF s \in open THEN "inside" ELSE "alone"]
      /\ UNCHANGED <<kind, pc, made, open, aborted, doubt>>
  BY DEF WritePlain
<1>2. /\ Pooled' = Pooled /\ Holders' = Holders
      /\ \A d \in Calls : Session(d)' = Session(d) /\ (InTransaction(d)' <=> InTransaction(d))
  BY <1>1 DEF Pooled, Holders, Session, InTransaction
<1>3. s \in open => s = File /\ s \in Sessions
  BY TransactionsAssumption DEF IInv, Types, Session, Sessions
<1>4. w \in Rows /\ \A c \in Calls : w \notin made[c]
  BY TransactionsAssumption DEF Rows, IInv, Types
<1>5. /\ rows' = IF s \in open THEN rows ELSE rows \cup {w}
      /\ dirty' = IF s \in open THEN [dirty EXCEPT ![s] = @ \cup {w}] ELSE dirty
      /\ dirty \in [Sessions -> SUBSET Rows] /\ plain \in [Writers -> {"no", "alone", "inside"}]
  BY <1>1 DEF Put, IInv, Types
<1> HIDE DEF s
<1>6. \A q \in Sessions : dirty[q] \subseteq dirty'[q] /\ dirty'[q] \subseteq dirty[q] \cup {w}
  BY <1>3, <1>5
<1>7. Types'
  <2>1. open' \subseteq {Session(d)' : d \in Calls}
    BY <1>1, <1>2 DEF IInv, Types
  <2>2. \A q \in Sessions \ open : dirty'[q] = {}
    BY <1>3, <1>5 DEF IInv, Types
  <2>3. dirty' \in [Sessions -> SUBSET Rows] /\ rows' \subseteq Rows
    BY <1>3, <1>4, <1>5 DEF IInv, Types
  <2>4. plain' \in [Writers -> {"no", "alone", "inside"}]
    BY <1>1, <1>5
  <2> QED BY <1>1, <2>1, <2>2, <2>3, <2>4 DEF IInv, Types
<1>8. PoolBounded' /\ Alone'
  BY <1>1, <1>2 DEF IInv, PoolBounded, Alone
<1>9. RowsMade'
  BY <1>1, <1>5, <1>6 DEF IInv, RowsMade
<1>10. OthersKept'
  BY <1>1, <1>5 DEF IInv, OthersKept
<1>11. ASSUME NEW c \in Calls
       PROVE  Kept(c)'
  <2>1. made[c] \cap rows' = made[c] \cap rows
    BY <1>4, <1>5
  <2>2. \A q \in Sessions : dirty'[q] \cap made[c] = dirty[q] \cap made[c]
    BY <1>4, <1>6
  <2> QED BY <1>1, <1>2, <1>6, <2>1, <2>2, SessionType DEF IInv, Kept
<1> QED BY <1>7, <1>8, <1>9, <1>10, <1>11 DEF IInv

----------------------------------------------------------------------------
(* The invariant and its theorems *)

LEMMA InitInv == Init => IInv
<1> SUFFICES ASSUME Init PROVE IInv
  OBVIOUS
<1>1. Holders = {} /\ \A c \in Calls : ~InTransaction(c)
  BY DEF Init, Holders, InTransaction
<1>2. PoolBounded
  BY <1>1, FS_EmptySet, TransactionsAssumption DEF PoolBounded
<1>3. Types
  BY DEF Init, Types, Rows
<1>4. Alone /\ RowsMade /\ OthersKept
  BY <1>1 DEF Init, Alone, RowsMade, OthersKept
<1>5. \A c \in Calls : Kept(c)
  BY DEF Init, Kept
<1> QED BY <1>2, <1>3, <1>4, <1>5 DEF IInv

LEMMA StutterKeeps ==
    ASSUME IInv, UNCHANGED vars
    PROVE  IInv'
<1>1. UNCHANGED <<kind, pc, made, rows, open, dirty, aborted, doubt, plain>>
  BY DEF vars
<1>2. /\ Pooled' = Pooled /\ Holders' = Holders
      /\ \A d \in Calls : Session(d)' = Session(d) /\ (InTransaction(d)' <=> InTransaction(d))
  BY <1>1 DEF Pooled, Holders, Session, InTransaction
<1>3. Types'
  <2>1. open' \subseteq {Session(d)' : d \in Calls}
    BY <1>1, <1>2 DEF IInv, Types
  <2> QED BY <1>1, <2>1 DEF IInv, Types
<1> QED BY <1>1, <1>2, <1>3 DEF IInv, PoolBounded, Alone, RowsMade, OthersKept, Kept

LEMMA NextKeeps == IInv /\ [Next]_vars => IInv'
<1> SUFFICES ASSUME IInv, [Next]_vars PROVE IInv'
  OBVIOUS
<1>1. ASSUME NEW c \in Calls, Start(c) \/ LoseClient(c) PROVE IInv'
  BY <1>1, StartKeeps, LoseClientKeeps
<1>2. ASSUME NEW c \in Calls, CallStep(c) PROVE IInv'
  BY <1>2, ConnectKeeps, BeginKeeps, WriteKeeps, RefusedKeeps, CallbackEndsKeeps, CommitKeeps,
     RollbackKeeps DEF CallStep
<1>3. ASSUME NEW w \in Writers, WritePlain(w) PROVE IInv'
  BY <1>3, WritePlainKeeps
<1>4. CASE UNCHANGED vars
  BY <1>4, StutterKeeps
<1> QED BY <1>1, <1>2, <1>3, <1>4 DEF Next

(***************************************************************************)
(* transaction() keeps its invariant, whatever the servers refuse and      *)
(* whichever clients are lost.                                             *)
(***************************************************************************)
THEOREM TransactionsInvariant == Spec => []IInv
<1>1. Init => IInv
  BY InitInv
<1>2. IInv /\ [Next]_vars => IInv'
  BY NextKeeps
<1> QED BY <1>1, <1>2, PTL DEF Spec

(***************************************************************************)
(* Types; no more clients are held than the pool has; and on the handle of *)
(* SQLite at most one call is at work.                                     *)
(***************************************************************************)
THEOREM TransactionsTypes == Spec => []TypeOK
<1>1. ASSUME IInv, ~Pooled
      PROVE  Cardinality({c \in Calls : pc[c] \in {"work", "commit"}}) <= 1
  <2> DEFINE W == {c \in Calls : pc[c] \in {"work", "commit"}}
  <2>1. CASE W = {}
    BY <2>1, FS_EmptySet
  <2>2. CASE W # {}
    <3>1. PICK c : c \in W
      BY <2>2
    <3>2. W = {c}
      BY <1>1, <3>1 DEF IInv, Alone, InTransaction
    <3>3. Cardinality(W) = 1
      BY <3>2, FS_Singleton
    <3> QED BY <3>3
  <2> QED BY <2>1, <2>2
<1>2. IInv => TypeOK
  BY <1>1 DEF IInv, Types, PoolBounded, TypeOK
<1> QED BY <1>2, TransactionsInvariant, PTL

(***************************************************************************)
(* transaction() is all or nothing, and takes nobody else's row back.      *)
(***************************************************************************)
THEOREM TransactionsAreAtomic == Spec => []AllOrNothing
<1>1. IInv => AllOrNothing
  BY DEF IInv, Kept, AllOrNothing, CallsAreAtomic, Ended
<1> QED BY <1>1, TransactionsInvariant, PTL

=============================================================================
