------------------------- MODULE AccessJournalProofs -------------------------
(***************************************************************************)
(* Proofs about AccessJournal, for any handlers, processes, tokens and     *)
(* failures, on either database.                                           *)
(*                                                                         *)
(* Everything rests on the locks.  A handler that has read the head of a   *)
(* chain holds the lock of that chain until its row is committed or its    *)
(* transaction is rolled back; so the head it read is the head its row     *)
(* follows, and the nonce it found unspent is unspent.                     *)
(*                                                                         *)
(* Two properties count.  A handler that is yet to send a body is one for  *)
(* which a row was committed, so bodies sent and handlers about to send    *)
(* are no more than the rows (BodyInv); a registration that has spent its  *)
(* challenge and is yet to record a key is counted the same way, with the  *)
(* keys, against the challenges spent (KeyInv).                            *)
(***************************************************************************)
EXTENDS AccessJournal, FiniteSetTheorems, TLAPS

-----------------------------------------------------------------------------
(* The inductive invariant. *)

Appending == {"begin", "head", "insert"}
Locked == {"head", "insert"}

\* LocksReturned and its converse: who appends holds the locks.
AppendsHold ==
  \A x \in Handlers :
    /\ h[x].at \in Appending => held[ProcessOf[x]] = x
    /\ h[x].at \in Locked => writing[LockOf(x)] = x

\* What a handler in a transaction has read is still so.
HeadKept == \A x \in Handlers : h[x].at = "insert" => h[x].head = Len(Chain(x))
NonceKept ==
  \A x \in Handlers : h[x].at \in Locked /\ h[x].kind = "access" => ack[h[x].token] # "consumed"

\* NonceSpentByOneRow without counting.
NonceNamed ==
  /\ \A n \in Nonces : ack[n] = "consumed" <=> \E i \in 1..Len(journal) : journal[i].nonce = n
  /\ \A i, j \in 1..Len(journal) : journal[i].nonce = journal[j].nonce => i = j

LockInv == AppendsHold /\ LocksReturned
RowInv == HeadKept /\ NonceKept /\ NonceNamed /\ ChainsVerify

-----------------------------------------------------------------------------
(* Types. *)

LEMMA FreeType == Free \in Requests /\ Free.at = "idle" /\ Free.kind = "read"
  BY DEF Free, Requests, Points, Kinds

LEMMA TypeStarts == Init => TypeOK
  BY JournalConstants, FreeType
     DEF Init, TypeOK, TablesType, ChainsType, HandlersType, LocksType, CountsType, Tokens

\* Requests that arrive, and their tokens.
LEMMA NonceTyped ==
  ASSUME TypeOK, NEW n \in Nonces, Mint(n) \/ Expire(n)
  PROVE  TypeOK'
  BY DEF Mint, Expire, chains, locks, counts,
     TypeOK, TablesType, ChainsType, HandlersType, LocksType, CountsType, Tokens

LEMMA ChallengeTyped ==
  ASSUME TypeOK, NEW c \in Challenges, MintChallenge(c) \/ ExpireChallenge(c)
  PROVE  TypeOK'
  BY DEF MintChallenge, ExpireChallenge, chains, locks, counts,
     TypeOK, TablesType, ChainsType, HandlersType, LocksType, CountsType, Tokens

LEMMA ArrivalTyped ==
  ASSUME TypeOK, NEW x \in Handlers, AccessArrives(x) \/ ReadArrives(x) \/ RegisterArrives(x)
  PROVE  TypeOK'
<1>1. PICK r \in Requests : Arrive(x, r) /\ (r.kind = "access" => r.token \in Nonces)
  <2>1. CASE AccessArrives(x)
    <3>1. PICK n \in Nonces, k \in Keys :
            Arrive(x, [Free EXCEPT !.at = "key", !.kind = "access", !.token = n, !.signed = k])
      BY <2>1 DEF AccessArrives
    <3> DEFINE r == [Free EXCEPT !.at = "key", !.kind = "access", !.token = n, !.signed = k]
    <3>2. r \in Requests /\ r.token \in Nonces
      BY DEF Free, Requests, Points, Kinds
    <3> HIDE DEF r
    <3> QED
      BY <3>1, <3>2 DEF r
  <2>2. CASE ReadArrives(x)
    <3> DEFINE r == [Free EXCEPT !.at = "lock", !.kind = "read"]
    <3>1. r \in Requests /\ r.kind # "access"
      BY DEF Free, Requests, Points, Kinds
    <3>2. Arrive(x, r)
      BY <2>2 DEF ReadArrives
    <3> HIDE DEF r
    <3> QED
      BY <3>1, <3>2
  <2>3. CASE RegisterArrives(x)
    <3>1. PICK c \in Challenges, k \in Keys :
            Arrive(x, [Free EXCEPT !.at = "challenge", !.kind = "register", !.token = c, !.signed = k,
                                   !.fresh = challenge[c] # "expired"])
      BY <2>3 DEF RegisterArrives
    <3> DEFINE r == [Free EXCEPT !.at = "challenge", !.kind = "register", !.token = c, !.signed = k,
                                 !.fresh = challenge[c] # "expired"]
    <3>2. r \in Requests /\ r.kind # "access"
      BY DEF Free, Requests, Points, Kinds
    <3> HIDE DEF r
    <3> QED
      BY <3>1, <3>2 DEF r
  <2> QED
    BY <2>1, <2>2, <2>3
<1>2. HandlersType'
  BY <1>1 DEF Arrive, TypeOK, HandlersType
<1>3. TablesType' /\ ChainsType' /\ LocksType' /\ CountsType'
  BY <1>1, JournalConstants DEF Arrive, tables, chains, locks, TypeOK, TablesType, ChainsType, LocksType, CountsType
<1> QED
  BY <1>2, <1>3 DEF TypeOK

\* A handler that goes on keeps its kind and token.
LEMMA GoesTyped ==
  ASSUME TypeOK, NEW x \in Handlers, NEW r \in Requests,
         (r.kind = h[x].kind /\ r.token = h[x].token) \/ r = Free,
         h' = [h EXCEPT ![x] = r]
  PROVE  HandlersType'
  BY FreeType DEF TypeOK, HandlersType

LEMMA EndsTyped ==
  ASSUME TypeOK, NEW x \in Handlers, Ends(x)
  PROVE  HandlersType' /\ LocksType'
  BY FreeType DEF Ends, TypeOK, HandlersType, LocksType

LEMMA HandlerTyped ==
  ASSUME TypeOK, NEW x \in Handlers,
         VerifySignature(x) \/ SpendChallenge(x) \/ RecordKey(x) \/ TakeLock(x) \/ Begin(x)
         \/ ReadHead(x) \/ Send(x) \/ Fail(x)
  PROVE  TypeOK'
<1>1. h[x] \in Requests /\ h \in [Handlers -> Requests]
  BY DEF TypeOK, HandlersType
<1>2. HandlersType'
  <2>1. ASSUME NEW point \in Points, Goes(x, point) PROVE HandlersType'
    <3>1. [h[x] EXCEPT !.at = point] \in Requests
      BY <1>1 DEF Requests
    <3> QED
      BY <1>1, <2>1, <3>1, GoesTyped DEF Goes, Requests
  <2>2. ASSUME h' = [h EXCEPT ![x] = Free] PROVE HandlersType'
    BY <2>2, FreeType, GoesTyped
  <2>3. CASE VerifySignature(x)
    <3>1. CASE keys[h[x].signed] = "active"
      <4> DEFINE r == [h[x] EXCEPT !.at = "lock", !.fresh = ack[h[x].token] # "expired"]
      <4>1. r \in Requests /\ r.kind = h[x].kind /\ r.token = h[x].token
        BY <1>1 DEF Requests, Points
      <4>2. h' = [h EXCEPT ![x] = r]
        BY <2>3, <3>1 DEF VerifySignature
      <4> HIDE DEF r
      <4> QED
        BY <4>1, <4>2, GoesTyped
    <3> QED
      BY <2>2, <2>3, <3>1 DEF VerifySignature
  <2>4. CASE SpendChallenge(x) \/ TakeLock(x)
    BY <2>1, <2>4 DEF SpendChallenge, TakeLock, Points
  <2>5. CASE RecordKey(x) \/ Begin(x)
    BY <2>1, <2>5, EndsTyped DEF RecordKey, Begin, Points
  <2>6. CASE ReadHead(x)
    <3> DEFINE r == [h[x] EXCEPT !.at = "insert", !.head = Len(Chain(x))]
    <3>1. Len(Chain(x)) \in Nat
      BY DEF Chain, TypeOK, ChainsType
    <3>2. r \in Requests /\ r.kind = h[x].kind /\ r.token = h[x].token
      BY <1>1, <3>1 DEF Requests, Points
    <3>3. h' = [h EXCEPT ![x] = r]
      BY <2>6 DEF ReadHead
    <3> HIDE DEF r
    <3> QED
      BY <3>2, <3>3, GoesTyped
  <2>7. CASE Send(x)
    BY <2>2, <2>7 DEF Send
  <2>8. CASE Fail(x)
    BY <2>8, EndsTyped DEF Fail
  <2> QED
    BY <2>3, <2>4, <2>5, <2>6, <2>7, <2>8
<1>3. LocksType'
  <2>1. CASE Ends(x)
    BY <2>1, EndsTyped
  <2>2. CASE TakeLock(x)
    BY <2>2, JournalConstants DEF TakeLock, TypeOK, LocksType
  <2>3. CASE UNCHANGED locks
    BY <2>3 DEF locks, TypeOK, LocksType
  <2>4. CASE writing' = [writing EXCEPT ![LockOf(x)] = x] /\ UNCHANGED held
    BY <2>4 DEF LockOf, ChainOf, TypeOK, LocksType
  <2> QED
    BY <2>1, <2>2, <2>3, <2>4
       DEF VerifySignature, SpendChallenge, RecordKey, Begin, ReadHead, Send, Fail
<1>4. TablesType'
  <2>1. CASE SpendChallenge(x)
    BY <2>1 DEF SpendChallenge, TypeOK, TablesType, Tokens
  <2>2. CASE RecordKey(x)
    BY <2>2 DEF RecordKey, TypeOK, TablesType
  <2>3. CASE UNCHANGED <<backend, tables>>
    BY <2>3 DEF tables, TypeOK, TablesType
  <2> QED
    BY <2>1, <2>2, <2>3 DEF VerifySignature, TakeLock, Begin, ReadHead, Send, Fail
<1>5. ChainsType'
  BY DEF VerifySignature, SpendChallenge, RecordKey, TakeLock, Begin, ReadHead, Send, Fail,
         chains, TypeOK, ChainsType
<1>6. CountsType'
  <2>1. CASE Send(x)
    BY <2>1 DEF Send, TypeOK, CountsType
  <2>2. CASE Fail(x)
    BY <2>2, JournalConstants DEF Fail, Fault, TypeOK, CountsType
  <2>3. CASE UNCHANGED counts
    BY <2>3 DEF counts, TypeOK, CountsType
  <2> QED
    BY <2>1, <2>2, <2>3 DEF VerifySignature, SpendChallenge, RecordKey, TakeLock, Begin, ReadHead
<1> QED
  BY <1>2, <1>3, <1>4, <1>5, <1>6 DEF TypeOK

LEMMA CommitTyped ==
  ASSUME TypeOK, NEW x \in Handlers, Insert(x) \/ FailCommitted(x)
  PROVE  TypeOK'
<1>1. Commits(x) /\ h[x] \in Requests /\ h \in [Handlers -> Requests]
  BY DEF Insert, FailCommitted, TypeOK, HandlersType
<1>2. ChainsType' /\ TablesType'
  <2>1. CASE h[x].kind = "access"
    <3> DEFINE row == [nonce |-> h[x].token, prev |-> h[x].head]
               Row == [nonce : Nonces, prev : Nat]
    <3>1. h[x].token \in Nonces /\ row \in Row
      BY <1>1, <2>1 DEF TypeOK, HandlersType, Requests
    <3>2. /\ journal' = Append(journal, row) /\ audit' = audit
          /\ ack' = [ack EXCEPT ![h[x].token] = "consumed"]
          /\ UNCHANGED <<backend, challenge, keys>>
      BY <1>1, <2>1 DEF Commits
    <3>3. TablesType'
      BY <3>2 DEF TypeOK, TablesType, Tokens
    <3>4. journal \in Seq(Row)
      BY DEF TypeOK, ChainsType
    <3> HIDE DEF row, Row
    <3>5. journal' \in Seq(Row)
      BY <3>1, <3>2, <3>4
    <3> QED
      BY <3>2, <3>3, <3>5 DEF Row, TypeOK, ChainsType
  <2>2. CASE h[x].kind # "access"
    <3> DEFINE row == [kind |-> h[x].kind, prev |-> h[x].head]
               Row == [kind : {"read", "register"}, prev : Nat]
    <3>1. row \in Row
      BY <1>1, <2>2 DEF Requests, Kinds
    <3>2. /\ audit' = Append(audit, row) /\ journal' = journal
          /\ UNCHANGED <<backend, ack, challenge, keys>>
      BY <1>1, <2>2 DEF Commits
    <3>3. TablesType'
      BY <3>2 DEF TypeOK, TablesType
    <3>4. audit \in Seq(Row)
      BY DEF TypeOK, ChainsType
    <3> HIDE DEF row, Row
    <3>5. audit' \in Seq(Row)
      BY <3>1, <3>2, <3>4
    <3> QED
      BY <3>2, <3>3, <3>5 DEF Row, TypeOK, ChainsType
  <2> QED
    BY <2>1, <2>2
<1>3. CASE Insert(x)
  <2> DEFINE r == [h[x] EXCEPT !.at = "send", !.head = 0]
  <2>1. r \in Requests /\ r.kind = h[x].kind /\ r.token = h[x].token /\ h' = [h EXCEPT ![x] = r]
    BY <1>1, <1>3 DEF Insert, Requests, Points
  <2> HIDE DEF r
  <2>2. HandlersType'
    BY <2>1, GoesTyped
  <2>3. LocksType' /\ CountsType'
    BY <1>3, JournalConstants DEF Insert, counts, LockOf, ChainOf, TypeOK, LocksType, CountsType
  <2> QED
    BY <1>2, <2>2, <2>3 DEF TypeOK
<1>4. CASE FailCommitted(x)
  <2>1. CountsType'
    BY <1>4, JournalConstants DEF FailCommitted, Fault, TypeOK, CountsType
  <2> QED
    BY <1>2, <1>4, <2>1, EndsTyped DEF FailCommitted, TypeOK
<1> QED
  BY <1>3, <1>4

LEMMA CrashTyped ==
  ASSUME TypeOK, NEW p \in Processes, Crash(p)
  PROVE  TypeOK'
<1>1. HandlersType'
  BY FreeType DEF Crash, TypeOK, HandlersType
<1>2. LocksType'
  BY DEF Crash, TypeOK, LocksType
<1>3. TablesType' /\ ChainsType' /\ CountsType'
  BY JournalConstants DEF Crash, Fault, tables, chains, TypeOK, TablesType, ChainsType, CountsType
<1> QED
  BY <1>1, <1>2, <1>3 DEF TypeOK

LEMMA TypeKept == TypeOK /\ [Next]_vars => TypeOK'
<1> SUFFICES ASSUME TypeOK, [Next]_vars PROVE TypeOK'
  OBVIOUS
<1>1. CASE UNCHANGED vars
  BY <1>1 DEF vars, tables, chains, locks, counts,
              TypeOK, TablesType, ChainsType, HandlersType, LocksType, CountsType
<1>2. ASSUME NEW n \in Nonces, Mint(n) \/ Expire(n) PROVE TypeOK'
  BY <1>2, NonceTyped
<1>3. ASSUME NEW c \in Challenges, MintChallenge(c) \/ ExpireChallenge(c) PROVE TypeOK'
  BY <1>3, ChallengeTyped
<1>4. ASSUME NEW x \in Handlers, AccessArrives(x) \/ ReadArrives(x) \/ RegisterArrives(x)
      PROVE  TypeOK'
  BY <1>4, ArrivalTyped
<1>5. ASSUME NEW x \in Handlers,
             VerifySignature(x) \/ SpendChallenge(x) \/ RecordKey(x) \/ TakeLock(x) \/ Begin(x)
             \/ ReadHead(x) \/ Send(x) \/ Fail(x)
      PROVE  TypeOK'
  BY <1>5, HandlerTyped
<1>6. ASSUME NEW x \in Handlers, Insert(x) \/ FailCommitted(x) PROVE TypeOK'
  BY <1>6, CommitTyped
<1>7. ASSUME NEW p \in Processes, Crash(p) PROVE TypeOK'
  BY <1>7, CrashTyped
<1>8. ASSUME NEW x \in Handlers,
             \/ AccessArrives(x) \/ ReadArrives(x) \/ RegisterArrives(x)
             \/ VerifySignature(x) \/ SpendChallenge(x) \/ RecordKey(x)
             \/ TakeLock(x) \/ Begin(x) \/ ReadHead(x) \/ Insert(x) \/ Send(x)
             \/ Fail(x) \/ FailCommitted(x)
      PROVE  TypeOK'
  BY <1>4, <1>5, <1>6, <1>8
<1>9. CASE Next
  BY <1>2, <1>3, <1>7, <1>8, <1>9 DEF Next
<1> QED
  BY <1>1, <1>9

\* TypeOK, for any handlers, processes, tokens and failures.
THEOREM JournalTypeCorrect == Spec => []TypeOK
  BY TypeStarts, TypeKept, PTL DEF Spec

-----------------------------------------------------------------------------
(* Locks. *)

LEMMA LockTyped ==
  ASSUME TypeOK, NEW x \in Handlers
  PROVE  LockOf(x) \in DOMAIN writing
  BY DEF LockOf, ChainOf, TypeOK, LocksType

\* Two requests in a transaction append to different chains.
LEMMA OneWriter ==
  ASSUME LockInv, NEW x \in Handlers, NEW y \in Handlers, h[x].at \in Locked, h[y].at \in Locked,
         (h[x].kind = "access") = (h[y].kind = "access")
  PROVE  x = y
<1>1. LockOf(x) = LockOf(y)
  BY DEF LockOf, ChainOf
<1> QED
  BY <1>1 DEF LockInv, AppendsHold

\* A handler that neither was nor is appending.
LEMMA OutsideLocks ==
  ASSUME TypeOK, LockInv, NEW x \in Handlers, NEW r \in Requests,
         h[x].at \notin Appending, r.at \notin Appending,
         h' = [h EXCEPT ![x] = r], UNCHANGED <<backend, locks>>
  PROVE  LockInv'
<1>1. h \in [Handlers -> Requests]
  BY DEF TypeOK, HandlersType
<1>2. h'[x] = r /\ \A y \in Handlers : y # x => h'[y] = h[y]
  BY <1>1
<1>3. \A y \in Handlers : y # x => LockOf(y)' = LockOf(y)
  BY <1>2 DEF LockOf, ChainOf
<1>4. AppendsHold'
  BY <1>2, <1>3 DEF LockInv, AppendsHold, Appending, Locked, locks
<1>5. LocksReturned'
  BY <1>2, <1>3 DEF LockInv, LocksReturned, Appending, locks, TypeOK, LocksType
<1> QED
  BY <1>4, <1>5 DEF LockInv

LEMMA EndsLocks ==
  ASSUME TypeOK, LockInv, NEW x \in Handlers, Ends(x), backend' = backend
  PROVE  LockInv'
<1>1. h \in [Handlers -> Requests] /\ NoOne \notin Handlers
  BY JournalConstants DEF TypeOK, HandlersType
<1>2. h'[x] = Free /\ \A y \in Handlers : y # x => h'[y] = h[y]
  BY <1>1 DEF Ends
<1>3. \A y \in Handlers : y # x => LockOf(y)' = LockOf(y)
  BY <1>2 DEF LockOf, ChainOf
<1>4. AppendsHold'
  <2>1. ASSUME NEW y \in Handlers, y # x PROVE AppendsHold!(y)'
    BY <1>2, <1>3, <2>1, LockTyped, JournalConstants
       DEF LockInv, AppendsHold, Ends, TypeOK, LocksType
  <2> QED
    BY <1>2, <2>1, FreeType DEF AppendsHold, Appending, Locked
<1>5. LocksReturned'
  BY <1>2, <1>3 DEF LockInv, LocksReturned, Ends, TypeOK, LocksType
<1> QED
  BY <1>4, <1>5 DEF LockInv

LEMMA TakeLockLocks ==
  ASSUME TypeOK, LockInv, NEW x \in Handlers, TakeLock(x)
  PROVE  LockInv'
<1>1. h \in [Handlers -> Requests] /\ NoOne \notin Handlers /\ h[x].at = "lock"
  BY JournalConstants DEF TypeOK, HandlersType, TakeLock
<1>2. /\ h'[x].kind = h[x].kind /\ h'[x].at = "begin"
      /\ \A y \in Handlers : y # x => h'[y] = h[y]
  BY <1>1 DEF TakeLock, Goes, Requests
<1>3. \A y \in Handlers : LockOf(y)' = LockOf(y)
  BY <1>2 DEF TakeLock, LockOf, ChainOf
<1>4. /\ held[ProcessOf[x]] = NoOne /\ held' = [held EXCEPT ![ProcessOf[x]] = x]
      /\ writing' = writing
  BY DEF TakeLock
<1>5. AppendsHold'
  BY <1>1, <1>2, <1>3, <1>4, JournalConstants
     DEF LockInv, AppendsHold, Appending, Locked, TypeOK, LocksType
<1>6. LocksReturned'
  BY <1>1, <1>2, <1>3, <1>4, JournalConstants DEF LockInv, LocksReturned, TypeOK, LocksType
<1> QED
  BY <1>5, <1>6 DEF LockInv

LEMMA BeginLocks ==
  ASSUME TypeOK, LockInv, NEW x \in Handlers, Begin(x)
  PROVE  LockInv'
<1>1. CASE ~Spendable(x)
  BY <1>1, EndsLocks DEF Begin
<1>2. CASE Spendable(x)
  <2>1. h \in [Handlers -> Requests] /\ NoOne \notin Handlers /\ h[x].at = "begin"
    BY JournalConstants DEF TypeOK, HandlersType, Begin
  <2>2. /\ h'[x].kind = h[x].kind /\ h'[x].at = "head"
        /\ \A y \in Handlers : y # x => h'[y] = h[y]
    BY <1>2, <2>1 DEF Begin, Goes, Requests
  <2>3. \A y \in Handlers : LockOf(y)' = LockOf(y)
    BY <2>2 DEF Begin, LockOf, ChainOf
  <2>4. /\ writing[LockOf(x)] = NoOne /\ writing' = [writing EXCEPT ![LockOf(x)] = x]
        /\ held' = held
    BY <1>2 DEF Begin
  <2>5. AppendsHold'
    BY <2>1, <2>2, <2>3, <2>4, LockTyped
       DEF LockInv, AppendsHold, Appending, Locked, TypeOK, LocksType
  <2>6. LocksReturned'
    BY <2>1, <2>2, <2>3, <2>4, LockTyped DEF LockInv, LocksReturned, TypeOK, LocksType
  <2> QED
    BY <2>5, <2>6 DEF LockInv
<1> QED
  BY <1>1, <1>2

LEMMA ReadHeadLocks ==
  ASSUME TypeOK, LockInv, NEW x \in Handlers, ReadHead(x)
  PROVE  LockInv'
<1>1. h \in [Handlers -> Requests] /\ h[x].at = "head"
  BY DEF TypeOK, HandlersType, ReadHead
<1>2. /\ h'[x].kind = h[x].kind /\ h'[x].at = "insert"
      /\ \A y \in Handlers : y # x => h'[y] = h[y]
  BY <1>1 DEF ReadHead, Requests
<1>3. \A y \in Handlers : LockOf(y)' = LockOf(y)
  BY <1>2 DEF ReadHead, LockOf, ChainOf
<1>4. held' = held /\ writing' = writing
  BY DEF ReadHead, locks
<1>5. AppendsHold'
  BY <1>1, <1>2, <1>3, <1>4 DEF LockInv, AppendsHold, Appending, Locked
<1>6. LocksReturned'
  BY <1>1, <1>2, <1>3, <1>4 DEF LockInv, LocksReturned, TypeOK, LocksType
<1> QED
  BY <1>5, <1>6 DEF LockInv

LEMMA InsertLocks ==
  ASSUME TypeOK, LockInv, NEW x \in Handlers, Insert(x)
  PROVE  LockInv'
<1>1. h \in [Handlers -> Requests] /\ NoOne \notin Handlers /\ h[x].at = "insert"
  BY JournalConstants DEF TypeOK, HandlersType, Insert, Commits
<1>2. /\ h'[x].kind = h[x].kind /\ h'[x].at = "send"
      /\ \A y \in Handlers : y # x => h'[y] = h[y]
  BY <1>1 DEF Insert, Requests
<1>3. \A y \in Handlers : LockOf(y)' = LockOf(y)
  BY <1>2 DEF Insert, Commits, LockOf, ChainOf
<1>4. /\ held[ProcessOf[x]] = x /\ held' = [held EXCEPT ![ProcessOf[x]] = NoOne]
      /\ writing[LockOf(x)] = x /\ writing' = [writing EXCEPT ![LockOf(x)] = NoOne]
  BY <1>1 DEF Insert, LockInv, AppendsHold, Appending, Locked
<1>5. AppendsHold'
  BY <1>1, <1>2, <1>3, <1>4, LockTyped, JournalConstants
     DEF LockInv, AppendsHold, Appending, Locked, TypeOK, LocksType
<1>6. LocksReturned'
  BY <1>1, <1>2, <1>3, <1>4, LockTyped, JournalConstants DEF LockInv, LocksReturned, TypeOK, LocksType
<1> QED
  BY <1>5, <1>6 DEF LockInv

LEMMA CrashLocks ==
  ASSUME TypeOK, LockInv, NEW p \in Processes, Crash(p)
  PROVE  LockInv'
<1>1. h \in [Handlers -> Requests] /\ NoOne \notin Handlers
  BY JournalConstants DEF TypeOK, HandlersType
<1>2. \A y \in Handlers : h'[y] = IF ProcessOf[y] = p THEN Free ELSE h[y]
  BY DEF Crash
<1>3. \A y \in Handlers : ProcessOf[y] # p => LockOf(y)' = LockOf(y)
  BY <1>2 DEF Crash, LockOf, ChainOf
<1>4. AppendsHold'
  <2>1. ASSUME NEW y \in Handlers, ProcessOf[y] # p PROVE AppendsHold!(y)'
    BY <1>1, <1>2, <1>3, <2>1, LockTyped, JournalConstants
       DEF LockInv, AppendsHold, Crash, TypeOK, LocksType
  <2>2. ASSUME NEW y \in Handlers, ProcessOf[y] = p PROVE AppendsHold!(y)'
    BY <1>2, <2>2, FreeType DEF AppendsHold, Appending, Locked
  <2> QED
    BY <2>1, <2>2 DEF AppendsHold
<1>5. LocksReturned'
  BY <1>1, <1>2, <1>3, JournalConstants DEF LockInv, LocksReturned, Crash, TypeOK, LocksType
<1> QED
  BY <1>4, <1>5 DEF LockInv

LEMMA LocksStart == Init => LockInv
  BY FreeType, JournalConstants
     DEF Init, LockInv, AppendsHold, LocksReturned, Appending, Locked

LEMMA ArrivalLocks ==
  ASSUME TypeOK, TypeOK', LockInv, NEW x \in Handlers, NEW r, r.at \notin Appending, Arrive(x, r)
  PROVE  LockInv'
<1>1. h[x].at \notin Appending /\ h \in [Handlers -> Requests] /\ h' \in [Handlers -> Requests]
  BY FreeType DEF Arrive, Appending, TypeOK, HandlersType
<1>2. r \in Requests
  BY <1>1 DEF Arrive
<1> QED
  BY <1>1, <1>2, OutsideLocks DEF Arrive

LEMMA HandlerLocks ==
  ASSUME TypeOK, TypeOK', LockInv, NEW x \in Handlers,
         VerifySignature(x) \/ SpendChallenge(x) \/ RecordKey(x) \/ Send(x)
  PROVE  LockInv'
<1>1. h \in [Handlers -> Requests] /\ h[x].at \notin Appending
  BY DEF TypeOK, HandlersType, VerifySignature, SpendChallenge, RecordKey, Send, Appending
<1>2. ASSUME NEW point \in {"lock", "record"}, Goes(x, point), UNCHANGED <<backend, locks>>
      PROVE  LockInv'
  <2> DEFINE r == [h[x] EXCEPT !.at = point]
  <2>1. r \in Requests /\ r.at \notin Appending
    BY <1>1 DEF Requests, Points, Appending
  <2>2. h' = [h EXCEPT ![x] = r]
    BY <1>2 DEF Goes
  <2> HIDE DEF r
  <2> QED
    BY <1>1, <1>2, <2>1, <2>2, OutsideLocks
<1>3. ASSUME h' = [h EXCEPT ![x] = Free], UNCHANGED <<backend, locks>>
      PROVE  LockInv'
  <2>1. Free.at \notin Appending
    BY FreeType DEF Appending
  <2> QED
    BY <1>1, <1>3, <2>1, FreeType, OutsideLocks
<1>4. CASE VerifySignature(x)
  <2>1. CASE keys[h[x].signed] = "active"
    <3> DEFINE r == [h[x] EXCEPT !.at = "lock", !.fresh = ack[h[x].token] # "expired"]
    <3>1. r \in Requests /\ r.at \notin Appending
      BY <1>1 DEF Requests, Points, Appending
    <3>2. h' = [h EXCEPT ![x] = r] /\ UNCHANGED <<backend, locks>>
      BY <1>4, <2>1 DEF VerifySignature
    <3> HIDE DEF r
    <3> QED
      BY <1>1, <3>1, <3>2, OutsideLocks
  <2> QED
    BY <1>3, <1>4, <2>1 DEF VerifySignature
<1>5. CASE SpendChallenge(x)
  BY <1>2, <1>5 DEF SpendChallenge
<1>6. CASE RecordKey(x)
  BY <1>2, <1>6, EndsLocks DEF RecordKey
<1>7. CASE Send(x)
  BY <1>3, <1>7 DEF Send
<1> QED
  BY <1>4, <1>5, <1>6, <1>7

LEMMA LocksKept == TypeOK /\ TypeOK' /\ LockInv /\ [Next]_vars => LockInv'
<1> SUFFICES ASSUME TypeOK, TypeOK', LockInv, [Next]_vars PROVE LockInv'
  OBVIOUS
<1>1. ASSUME UNCHANGED <<backend, h, locks>> PROVE LockInv'
  BY <1>1 DEF LockInv, AppendsHold, LocksReturned, LockOf, ChainOf, locks
<1>2. CASE UNCHANGED vars
  BY <1>1, <1>2 DEF vars
<1>3. ASSUME NEW n \in Nonces, Mint(n) \/ Expire(n) PROVE LockInv'
  BY <1>1, <1>3 DEF Mint, Expire
<1>4. ASSUME NEW c \in Challenges, MintChallenge(c) \/ ExpireChallenge(c) PROVE LockInv'
  BY <1>1, <1>4 DEF MintChallenge, ExpireChallenge
<1>5. ASSUME NEW x \in Handlers, AccessArrives(x) \/ ReadArrives(x) \/ RegisterArrives(x)
      PROVE  LockInv'
  <2>1. CASE AccessArrives(x)
    <3>1. PICK n \in Nonces, k \in Keys :
            Arrive(x, [Free EXCEPT !.at = "key", !.kind = "access", !.token = n, !.signed = k])
      BY <2>1 DEF AccessArrives
    <3> DEFINE r == [Free EXCEPT !.at = "key", !.kind = "access", !.token = n, !.signed = k]
    <3>2. r.at \notin Appending
      BY DEF Free, Appending
    <3> QED
      BY <3>1, <3>2, ArrivalLocks
  <2>2. CASE ReadArrives(x)
    <3>1. [Free EXCEPT !.at = "lock", !.kind = "read"].at \notin Appending
      BY DEF Free, Appending
    <3> QED
      BY <2>2, <3>1, ArrivalLocks DEF ReadArrives
  <2>3. CASE RegisterArrives(x)
    <3>1. PICK c \in Challenges, k \in Keys :
            Arrive(x, [Free EXCEPT !.at = "challenge", !.kind = "register", !.token = c, !.signed = k,
                                   !.fresh = challenge[c] # "expired"])
      BY <2>3 DEF RegisterArrives
    <3> DEFINE r == [Free EXCEPT !.at = "challenge", !.kind = "register", !.token = c, !.signed = k,
                                 !.fresh = challenge[c] # "expired"]
    <3>2. r.at \notin Appending
      BY DEF Free, Appending
    <3> QED
      BY <3>1, <3>2, ArrivalLocks
  <2> QED
    BY <1>5, <2>1, <2>2, <2>3
<1>6. ASSUME NEW x \in Handlers,
             VerifySignature(x) \/ SpendChallenge(x) \/ RecordKey(x) \/ Send(x)
      PROVE  LockInv'
  BY <1>6, HandlerLocks
<1>7. ASSUME NEW x \in Handlers, TakeLock(x) \/ Begin(x) \/ ReadHead(x) \/ Insert(x)
      PROVE  LockInv'
  BY <1>7, TakeLockLocks, BeginLocks, ReadHeadLocks, InsertLocks
<1>8. ASSUME NEW x \in Handlers, Fail(x) \/ FailCommitted(x) PROVE LockInv'
  BY <1>8, EndsLocks DEF Fail, FailCommitted, Commits
<1>9. ASSUME NEW p \in Processes, Crash(p) PROVE LockInv'
  BY <1>9, CrashLocks
<1>10. ASSUME NEW x \in Handlers,
              \/ AccessArrives(x) \/ ReadArrives(x) \/ RegisterArrives(x)
              \/ VerifySignature(x) \/ SpendChallenge(x) \/ RecordKey(x)
              \/ TakeLock(x) \/ Begin(x) \/ ReadHead(x) \/ Insert(x) \/ Send(x)
              \/ Fail(x) \/ FailCommitted(x)
       PROVE  LockInv'
  BY <1>5, <1>6, <1>7, <1>8, <1>10
<1>11. CASE Next
  BY <1>3, <1>4, <1>9, <1>10, <1>11 DEF Next
<1> QED
  BY <1>2, <1>11

\* LocksReturned: whichever way an append ends, the lock of its process and
\* the lock of its chain are free or with another append.
THEOREM LocksReturnedHolds == Spec => []LocksReturned
<1>1. LockInv => LocksReturned
  BY DEF LockInv
<1> QED
  BY <1>1, JournalTypeCorrect, LocksStart, LocksKept, PTL DEF Spec

-----------------------------------------------------------------------------
(* Rows. *)

LEMMA RowsStart == Init => RowInv
  BY FreeType DEF Init, RowInv, HeadKept, NonceKept, NonceNamed, ChainsVerify, Locked

\* A step that adds no row, spends no nonce and brings nobody into a transaction.
LEMMA OutsideRows ==
  ASSUME RowInv, UNCHANGED chains,
         \A n \in Nonces : ack'[n] = "consumed" <=> ack[n] = "consumed",
         \A y \in Handlers :
           \/ h'[y] = h[y] /\ (h[y].kind = "access" => h[y].token \in Nonces)
           \/ h'[y].at \notin Locked
  PROVE  RowInv'
<1>1. HeadKept'
  BY DEF RowInv, HeadKept, Chain, chains, Locked
<1>2. NonceKept'
  BY DEF RowInv, NonceKept
<1>3. NonceNamed' /\ ChainsVerify'
  BY DEF RowInv, NonceNamed, ChainsVerify, chains
<1> QED
  BY <1>1, <1>2, <1>3 DEF RowInv

LEMMA BeginRows ==
  ASSUME TypeOK, RowInv, NEW x \in Handlers, Begin(x), Spendable(x)
  PROVE  RowInv'
<1>1. h \in [Handlers -> Requests] /\ UNCHANGED <<ack, chains>>
  BY DEF TypeOK, HandlersType, Begin, tables
<1>2. /\ h'[x].kind = h[x].kind /\ h'[x].token = h[x].token /\ h'[x].at = "head"
      /\ \A y \in Handlers : y # x => h'[y] = h[y]
  BY <1>1 DEF Begin, Goes, Requests
<1>3. HeadKept'
  BY <1>1, <1>2 DEF RowInv, HeadKept, Chain, chains
<1>4. NonceKept'
  BY <1>1, <1>2 DEF RowInv, NonceKept, Spendable
<1>5. NonceNamed' /\ ChainsVerify'
  BY <1>1 DEF RowInv, NonceNamed, ChainsVerify, chains
<1> QED
  BY <1>3, <1>4, <1>5 DEF RowInv

LEMMA ReadHeadRows ==
  ASSUME TypeOK, RowInv, NEW x \in Handlers, ReadHead(x)
  PROVE  RowInv'
<1>1. h \in [Handlers -> Requests] /\ UNCHANGED <<ack, chains>> /\ h[x].at \in Locked
  BY DEF TypeOK, HandlersType, ReadHead, tables, Locked
<1>2. /\ h'[x].kind = h[x].kind /\ h'[x].token = h[x].token /\ h'[x].head = Len(Chain(x))
      /\ \A y \in Handlers : y # x => h'[y] = h[y]
  BY <1>1 DEF ReadHead, Requests
<1>3. HeadKept'
  BY <1>1, <1>2 DEF RowInv, HeadKept, Chain, chains
<1>4. NonceKept'
  BY <1>1, <1>2 DEF RowInv, NonceKept
<1>5. NonceNamed' /\ ChainsVerify'
  BY <1>1 DEF RowInv, NonceNamed, ChainsVerify, chains
<1> QED
  BY <1>3, <1>4, <1>5 DEF RowInv

\* A commit adds the row after the head, and names a nonce no row names.
LEMMA CommitRows ==
  ASSUME TypeOK, LockInv, RowInv, NEW x \in Handlers, Commits(x),
         h'[x].at \notin Locked, \A y \in Handlers : y # x => h'[y] = h[y]
  PROVE  RowInv'
<1>1. h[x].at \in Locked /\ h[x].head = Len(Chain(x)) /\ h[x].at = "insert"
  BY DEF Commits, Locked, RowInv, HeadKept
<1>2. CASE h[x].kind = "access"
  <2> DEFINE row == [nonce |-> h[x].token, prev |-> h[x].head]
             Row == [nonce : Nonces, prev : Nat]
             n0 == h[x].token
  <2>1. /\ journal' = Append(journal, row) /\ audit' = audit
        /\ ack' = [ack EXCEPT ![n0] = "consumed"]
    BY <1>2 DEF Commits
  <2>2. n0 \in Nonces /\ row.nonce = n0 /\ row.prev = Len(journal) /\ ack[n0] # "consumed"
    BY <1>1, <1>2 DEF TypeOK, HandlersType, Chain, RowInv, NonceKept
  <2>3. journal \in Seq(Row) /\ ack \in [Nonces -> Tokens]
    BY DEF TypeOK, ChainsType, TablesType
  <2> HIDE DEF row, Row, n0
  <2>4. /\ Len(journal) \in Nat /\ Len(journal') = Len(journal) + 1
        /\ \A i \in 1..Len(journal) : journal'[i] = journal[i]
        /\ journal'[Len(journal) + 1] = row
    BY <2>1, <2>3
  <2>5. \A y \in Handlers : y # x /\ h[y].at \in Locked => h[y].kind # "access"
    BY <1>1, <1>2, OneWriter
  <2>6. HeadKept'
    BY <2>1, <2>5 DEF RowInv, HeadKept, Chain, Locked
  <2>7. NonceKept'
    BY <2>5 DEF NonceKept
  <2>8. ChainsVerify'
    BY <2>1, <2>2, <2>4 DEF RowInv, ChainsVerify
  <2>9. \A i \in 1..Len(journal) : journal[i].nonce # n0
    BY <2>2 DEF RowInv, NonceNamed
  <2>10. NonceNamed'
    BY <2>1, <2>2, <2>3, <2>4, <2>9 DEF RowInv, NonceNamed
  <2> QED
    BY <2>6, <2>7, <2>8, <2>10 DEF RowInv
<1>3. CASE h[x].kind # "access"
  <2> DEFINE row == [kind |-> h[x].kind, prev |-> h[x].head]
             Row == [kind : {"read", "register"}, prev : Nat]
  <2>1. /\ audit' = Append(audit, row) /\ journal' = journal /\ ack' = ack
    BY <1>3 DEF Commits
  <2>2. row.prev = Len(audit)
    BY <1>1, <1>3 DEF Chain
  <2>3. audit \in Seq(Row)
    BY DEF TypeOK, ChainsType
  <2> HIDE DEF row, Row
  <2>4. /\ Len(audit) \in Nat /\ Len(audit') = Len(audit) + 1
        /\ \A i \in 1..Len(audit) : audit'[i] = audit[i]
        /\ audit'[Len(audit) + 1] = row
    BY <2>1, <2>3
  <2>5. \A y \in Handlers : y # x /\ h[y].at \in Locked => h[y].kind = "access"
    BY <1>1, <1>3, OneWriter
  <2>6. HeadKept'
    BY <2>1, <2>5 DEF RowInv, HeadKept, Chain, Locked
  <2>7. NonceKept' /\ NonceNamed'
    BY <2>1 DEF RowInv, NonceKept, NonceNamed
  <2>8. ChainsVerify'
    BY <2>1, <2>2, <2>4 DEF RowInv, ChainsVerify
  <2> QED
    BY <2>6, <2>7, <2>8 DEF RowInv
<1> QED
  BY <1>2, <1>3

\* The steps that leave the chains and the nonces alone.
LEMMA QuietRows ==
  ASSUME TypeOK, RowInv, NEW x \in Handlers,
         \/ AccessArrives(x) \/ ReadArrives(x) \/ RegisterArrives(x) \/ (Begin(x) /\ ~Spendable(x))
         \/ VerifySignature(x) \/ SpendChallenge(x) \/ RecordKey(x) \/ TakeLock(x) \/ Send(x) \/ Fail(x)
  PROVE  RowInv'
<1>1. h \in [Handlers -> Requests]
      /\ \A y \in Handlers : h[y].kind = "access" => h[y].token \in Nonces
  BY DEF TypeOK, HandlersType
<1>2. UNCHANGED <<ack, chains>>
  BY DEF AccessArrives, ReadArrives, RegisterArrives, Arrive, Begin, VerifySignature, SpendChallenge,
         RecordKey, TakeLock, Send, Fail, tables
<1>3. ASSUME NEW r, r.at \notin Locked, h' = [h EXCEPT ![x] = r] PROVE RowInv'
  BY <1>1, <1>2, <1>3, OutsideRows
<1>4. CASE AccessArrives(x)
  <2>1. PICK n \in Nonces, k \in Keys :
          Arrive(x, [Free EXCEPT !.at = "key", !.kind = "access", !.token = n, !.signed = k])
    BY <1>4 DEF AccessArrives
  <2>2. [Free EXCEPT !.at = "key", !.kind = "access", !.token = n, !.signed = k].at \notin Locked
    BY DEF Free, Locked
  <2> QED
    BY <1>3, <2>1, <2>2 DEF Arrive
<1>5. CASE ReadArrives(x)
  <2>1. [Free EXCEPT !.at = "lock", !.kind = "read"].at \notin Locked
    BY DEF Free, Locked
  <2> QED
    BY <1>3, <1>5, <2>1 DEF ReadArrives, Arrive
<1>6. CASE RegisterArrives(x)
  <2>1. PICK c \in Challenges, k \in Keys :
          Arrive(x, [Free EXCEPT !.at = "challenge", !.kind = "register", !.token = c, !.signed = k,
                                 !.fresh = challenge[c] # "expired"])
    BY <1>6 DEF RegisterArrives
  <2>2. [Free EXCEPT !.at = "challenge", !.kind = "register", !.token = c, !.signed = k,
                     !.fresh = challenge[c] # "expired"].at \notin Locked
    BY DEF Free, Locked
  <2> QED
    BY <1>3, <2>1, <2>2 DEF Arrive
<1>7. ASSUME h' = [h EXCEPT ![x] = Free] PROVE RowInv'
  BY <1>3, <1>7, FreeType DEF Locked
<1>8. ASSUME NEW point \in {"lock", "record", "begin"}, Goes(x, point) PROVE RowInv'
  <2>1. [h[x] EXCEPT !.at = point].at \notin Locked
    BY <1>1 DEF Requests, Locked
  <2> QED
    BY <1>3, <1>8, <2>1 DEF Goes
<1>9. CASE VerifySignature(x)
  <2>1. [h[x] EXCEPT !.at = "lock", !.fresh = ack[h[x].token] # "expired"].at \notin Locked
    BY <1>1 DEF Requests, Locked
  <2> QED
    BY <1>3, <1>7, <1>9, <2>1 DEF VerifySignature
<1>10. CASE SpendChallenge(x) \/ TakeLock(x)
  BY <1>8, <1>10 DEF SpendChallenge, TakeLock
<1>11. CASE RecordKey(x) \/ (Begin(x) /\ ~Spendable(x)) \/ Send(x) \/ Fail(x)
  BY <1>7, <1>8, <1>11 DEF RecordKey, Begin, Send, Fail, Ends
<1> QED
  BY <1>4, <1>5, <1>6, <1>9, <1>10, <1>11

LEMMA RowsKept == TypeOK /\ LockInv /\ RowInv /\ [Next]_vars => RowInv'
<1> SUFFICES ASSUME TypeOK, LockInv, RowInv, [Next]_vars PROVE RowInv'
  OBVIOUS
<1>1. h \in [Handlers -> Requests] /\ ack \in [Nonces -> Tokens]
      /\ \A y \in Handlers : h[y].kind = "access" => h[y].token \in Nonces
  BY DEF TypeOK, HandlersType, TablesType
<1>2. CASE UNCHANGED vars
  BY <1>1, <1>2, OutsideRows DEF vars, tables
<1>3. ASSUME NEW n \in Nonces, Mint(n) \/ Expire(n) PROVE RowInv'
  <2>1. UNCHANGED <<chains, h>> /\ \A m \in Nonces : ack'[m] = "consumed" <=> ack[m] = "consumed"
    BY <1>1, <1>3 DEF Mint, Expire
  <2> QED
    BY <1>1, <2>1, OutsideRows
<1>4. ASSUME NEW c \in Challenges, MintChallenge(c) \/ ExpireChallenge(c) PROVE RowInv'
  <2>1. UNCHANGED <<chains, h, ack>>
    BY <1>4 DEF MintChallenge, ExpireChallenge
  <2> QED
    BY <1>1, <2>1, OutsideRows
<1>5. ASSUME NEW x \in Handlers,
             \/ AccessArrives(x) \/ ReadArrives(x) \/ RegisterArrives(x)
             \/ VerifySignature(x) \/ SpendChallenge(x) \/ RecordKey(x)
             \/ TakeLock(x) \/ Send(x) \/ Fail(x)
      PROVE  RowInv'
  BY <1>5, QuietRows
<1>6. ASSUME NEW x \in Handlers, Begin(x) \/ ReadHead(x) PROVE RowInv'
  BY <1>6, QuietRows, BeginRows, ReadHeadRows
<1>7. ASSUME NEW x \in Handlers, Insert(x) \/ FailCommitted(x) PROVE RowInv'
  <2>1. CASE Insert(x)
    <3>1. Commits(x) /\ h'[x].at = "send" /\ \A y \in Handlers : y # x => h'[y] = h[y]
      BY <1>1, <2>1 DEF Insert, Requests
    <3> QED
      BY <3>1, CommitRows DEF Locked
  <2>2. CASE FailCommitted(x)
    <3>1. Commits(x) /\ h'[x] = Free /\ \A y \in Handlers : y # x => h'[y] = h[y]
      BY <1>1, <2>2 DEF FailCommitted, Ends
    <3> QED
      BY <3>1, FreeType, CommitRows DEF Locked
  <2> QED
    BY <1>7, <2>1, <2>2
<1>8. ASSUME NEW p \in Processes, Crash(p) PROVE RowInv'
  <2>1. /\ UNCHANGED <<chains, ack>>
        /\ \A y \in Handlers : h'[y] = h[y] \/ h'[y].at \notin Locked
    BY <1>8, FreeType DEF Crash, tables, Locked
  <2> QED
    BY <1>1, <2>1, OutsideRows
<1>9. ASSUME NEW x \in Handlers,
             \/ AccessArrives(x) \/ ReadArrives(x) \/ RegisterArrives(x)
             \/ VerifySignature(x) \/ SpendChallenge(x) \/ RecordKey(x)
             \/ TakeLock(x) \/ Begin(x) \/ ReadHead(x) \/ Insert(x) \/ Send(x)
             \/ Fail(x) \/ FailCommitted(x)
      PROVE  RowInv'
  BY <1>5, <1>6, <1>7, <1>9
<1>10. CASE Next
  BY <1>3, <1>4, <1>8, <1>9, <1>10 DEF Next
<1> QED
  BY <1>2, <1>10

LEMMA JournalInvariant == Spec => [](TypeOK /\ LockInv /\ RowInv)
  BY TypeStarts, TypeKept, LocksStart, LocksKept, RowsStart, RowsKept, PTL DEF Spec

\* ChainsVerify: both chains verify from the first row to the last, whichever
\* handlers of whichever processes append at once, fail or die.
THEOREM ChainsVerifyHolds == Spec => []ChainsVerify
<1>1. RowInv => ChainsVerify
  BY DEF RowInv
<1> QED
  BY <1>1, JournalInvariant, PTL

\* The rows that name a nonce, counted.
LEMMA NamedCounted ==
  ASSUME TypeOK, NonceNamed
  PROVE  NonceSpentByOneRow
<1> SUFFICES ASSUME NEW n \in Nonces
             PROVE  Cardinality({i \in 1..Len(journal) : journal[i].nonce = n})
                      = IF ack[n] = "consumed" THEN 1 ELSE 0
  BY DEF NonceSpentByOneRow
<1> DEFINE R == {i \in 1..Len(journal) : journal[i].nonce = n}
<1>1. CASE ack[n] = "consumed"
  <2>1. PICK i \in 1..Len(journal) : journal[i].nonce = n
    BY <1>1 DEF NonceNamed
  <2>2. R = {i}
    BY <2>1 DEF NonceNamed
  <2> QED
    BY <1>1, <2>2, FS_Singleton
<1>2. CASE ack[n] # "consumed"
  <2>1. R = {}
    BY <1>2 DEF NonceNamed
  <2> QED
    BY <1>2, <2>1, FS_EmptySet
<1> QED
  BY <1>1, <1>2

\* NonceSpentByOneRow: no interleaving, failure or crash burns a nonce without a
\* row, or lets one nonce have two.
THEOREM NonceSpentByOneRowHolds == Spec => []NonceSpentByOneRow
<1>1. TypeOK /\ RowInv => NonceSpentByOneRow
  BY NamedCounted DEF RowInv
<1> QED
  BY <1>1, JournalInvariant, PTL
-----------------------------------------------------------------------------
(* Bodies and keys, counted. *)

\* The handlers whose row is committed and whose body is still to be sent, and
\* those that have spent a challenge and are still to record a key.
Sending(k) == {x \in Handlers : h[x].at = "send" /\ h[x].kind = k}
Recording  == {x \in Handlers : h[x].at = "record"}

ReadRows == {i \in 1..Len(audit) : audit[i].kind = "read"}
RowsOf(k) == IF k = "access" THEN Len(journal) ELSE Cardinality(ReadRows)

Known == {k \in Keys : keys[k] # "none"}
Spent == {c \in Challenges : challenge[c] = "consumed"}

\* EvidenceFirst, with the bodies that are about to be sent.
BodyInv ==
  \A k \in {"access", "read"} :
    IsFiniteSet(Sending(k)) /\ bodies[k] + Cardinality(Sending(k)) <= RowsOf(k)

\* KeyPerChallenge, with the keys that are about to be recorded.
KeyInv ==
  /\ \A x \in Handlers : h[x].at = "challenge" => h[x].token \in Challenges
  /\ \A k, l \in Keys : keys[k] = "active" /\ keys[l] = "active" => k = l
  /\ IsFiniteSet(Known) /\ IsFiniteSet(Recording) /\ IsFiniteSet(Spent)
  /\ Cardinality(Known) + Cardinality(Recording) <= Cardinality(Spent)

\* Counting, by what joins and what leaves.
LEMMA NoMore ==
  ASSUME NEW S, NEW T, IsFiniteSet(S), T \subseteq S
  PROVE  /\ IsFiniteSet(T) /\ Cardinality(T) <= Cardinality(S)
         /\ Cardinality(S) \in Nat /\ Cardinality(T) \in Nat
  BY FS_Subset, FS_CardinalityType

LEMMA OneMore ==
  ASSUME NEW S, NEW T, NEW x, IsFiniteSet(S), T \subseteq S \cup {x}
  PROVE  /\ IsFiniteSet(T) /\ Cardinality(T) <= Cardinality(S) + 1
         /\ Cardinality(S) \in Nat /\ Cardinality(T) \in Nat
<1>1. IsFiniteSet(S \cup {x}) /\ Cardinality(S \cup {x}) <= Cardinality(S) + 1 /\ Cardinality(S) \in Nat
  BY FS_AddElement, FS_CardinalityType
<1> QED
  BY <1>1, NoMore

LEMMA OneLess ==
  ASSUME NEW S, NEW T, NEW x \in S, IsFiniteSet(S), T \subseteq S \ {x}
  PROVE  /\ IsFiniteSet(T) /\ Cardinality(T) + 1 <= Cardinality(S)
         /\ Cardinality(S) \in Nat /\ Cardinality(T) \in Nat
<1>1. IsFiniteSet(S \ {x}) /\ Cardinality(S \ {x}) = Cardinality(S) - 1 /\ Cardinality(S) \in Nat
  BY FS_RemoveElement, FS_CardinalityType
<1> QED
  BY <1>1, NoMore

\* A handler whose step is not its commit or its challenge's gets to none of the
\* places that are counted.
LEMMA Elsewhere ==
  ASSUME TypeOK, [Next]_vars, ~ \E x \in Handlers : Insert(x) \/ SpendChallenge(x)
  PROVE  \A y \in Handlers : \/ h'[y] = h[y]
                             \/ /\ h'[y].at \notin {"send", "record"}
                                /\ h'[y].at = "challenge" => h'[y].token \in Challenges
<1> DEFINE Out(r) == /\ r.at \notin {"send", "record"}
                     /\ r.at = "challenge" => r.token \in Challenges
<1> SUFFICES ASSUME NEW y \in Handlers PROVE h'[y] = h[y] \/ Out(h'[y])
  OBVIOUS
<1>1. h \in [Handlers -> Requests]
  BY DEF TypeOK, HandlersType
<1>2. ASSUME NEW x \in Handlers, NEW r, Out(r), h' = [h EXCEPT ![x] = r] PROVE h'[y] = h[y] \/ Out(h'[y])
  <2> HIDE DEF Out
  <2> QED
    BY <1>1, <1>2
<1>3. Out(Free)
  BY FreeType
<1>4. ASSUME NEW x \in Handlers, NEW point \in {"lock", "begin", "head"}, Goes(x, point)
      PROVE  h'[y] = h[y] \/ Out(h'[y])
  <2>1. Out([h[x] EXCEPT !.at = point])
    BY <1>1 DEF Requests
  <2> QED
    BY <1>2, <1>4, <2>1 DEF Goes
<1>5. CASE UNCHANGED h
  BY <1>5
<1>6. ASSUME NEW x \in Handlers, AccessArrives(x) \/ ReadArrives(x) \/ RegisterArrives(x)
      PROVE  h'[y] = h[y] \/ Out(h'[y])
  <2>1. CASE AccessArrives(x)
    <3>1. PICK n \in Nonces, k \in Keys :
            Arrive(x, [Free EXCEPT !.at = "key", !.kind = "access", !.token = n, !.signed = k])
      BY <2>1 DEF AccessArrives
    <3>2. Out([Free EXCEPT !.at = "key", !.kind = "access", !.token = n, !.signed = k])
      BY DEF Free
    <3> QED
      BY <1>2, <3>1, <3>2 DEF Arrive
  <2>2. CASE ReadArrives(x)
    <3>1. Out([Free EXCEPT !.at = "lock", !.kind = "read"])
      BY DEF Free
    <3> QED
      BY <1>2, <2>2, <3>1 DEF ReadArrives, Arrive
  <2>3. CASE RegisterArrives(x)
    <3>1. PICK c \in Challenges, k \in Keys :
            Arrive(x, [Free EXCEPT !.at = "challenge", !.kind = "register", !.token = c, !.signed = k,
                                   !.fresh = challenge[c] # "expired"])
      BY <2>3 DEF RegisterArrives
    <3>2. Out([Free EXCEPT !.at = "challenge", !.kind = "register", !.token = c, !.signed = k,
                           !.fresh = challenge[c] # "expired"])
      BY DEF Free
    <3> QED
      BY <1>2, <3>1, <3>2 DEF Arrive
  <2> QED
    BY <1>6, <2>1, <2>2, <2>3
<1>7. ASSUME NEW x \in Handlers,
             VerifySignature(x) \/ RecordKey(x) \/ TakeLock(x) \/ Begin(x) \/ ReadHead(x)
      PROVE  h'[y] = h[y] \/ Out(h'[y])
  <2>1. Out([h[x] EXCEPT !.at = "lock", !.fresh = ack[h[x].token] # "expired"])
    BY <1>1 DEF Requests
  <2>2. Out([h[x] EXCEPT !.at = "insert", !.head = Len(Chain(x))])
    BY <1>1 DEF Requests
  <2>3. CASE VerifySignature(x) \/ ReadHead(x)
    <3> HIDE DEF Out
    <3>1. CASE VerifySignature(x) /\ keys[h[x].signed] = "active"
      <4>1. h' = [h EXCEPT ![x] = [h[x] EXCEPT !.at = "lock", !.fresh = ack[h[x].token] # "expired"]]
        BY <1>2, <3>1 DEF VerifySignature
      <4> QED
        BY <1>2, <2>1, <4>1
    <3>2. CASE VerifySignature(x) /\ keys[h[x].signed] # "active"
      BY <1>2, <1>3, <3>2 DEF VerifySignature
    <3>3. CASE ReadHead(x)
      BY <1>2, <2>2, <3>3 DEF ReadHead
    <3> QED
      BY <2>3, <3>1, <3>2, <3>3
  <2>4. CASE RecordKey(x) \/ TakeLock(x) \/ Begin(x)
    <3> HIDE DEF Out
    <3> QED
      BY <1>2, <1>3, <1>4, <2>4 DEF RecordKey, TakeLock, Begin, Ends
  <2> QED
    BY <1>7, <2>3, <2>4
<1>8. ASSUME NEW x \in Handlers, Send(x) \/ Fail(x) \/ FailCommitted(x) PROVE h'[y] = h[y] \/ Out(h'[y])
  <2> HIDE DEF Out
  <2> QED
    BY <1>2, <1>3, <1>8 DEF Send, Fail, FailCommitted, Ends
<1>9. ASSUME NEW p \in Processes, Crash(p) PROVE h'[y] = h[y] \/ Out(h'[y])
  <2> HIDE DEF Out
  <2> QED
    BY <1>3, <1>9 DEF Crash
<1>10. ASSUME NEW n \in Nonces, Mint(n) \/ Expire(n) PROVE UNCHANGED h
  BY <1>10 DEF Mint, Expire
<1>11. ASSUME NEW c \in Challenges, MintChallenge(c) \/ ExpireChallenge(c) PROVE UNCHANGED h
  BY <1>11 DEF MintChallenge, ExpireChallenge
<1> HIDE DEF Out
<1>12. CASE UNCHANGED vars
  BY <1>5, <1>12 DEF vars
<1>13. CASE Next
  BY <1>5, <1>6, <1>7, <1>8, <1>9, <1>10, <1>11, <1>13 DEF Next
<1> QED
  BY <1>12, <1>13
\* What the steps write that are neither a commit nor a send, and those that
\* neither spend a challenge nor record a key.
LEMMA BodiesAlone ==
  ASSUME [Next]_vars, ~ \E x \in Handlers : Insert(x) \/ FailCommitted(x) \/ Send(x)
  PROVE  UNCHANGED <<chains, bodies>>
  BY DEF Next, vars, counts, chains, Mint, Expire, MintChallenge, ExpireChallenge, AccessArrives, ReadArrives,
         RegisterArrives, Arrive, VerifySignature, SpendChallenge, RecordKey, TakeLock, Begin,
         ReadHead, Fail, Crash

LEMMA KeysAlone ==
  ASSUME TypeOK, [Next]_vars, ~ \E x \in Handlers : SpendChallenge(x) \/ RecordKey(x)
  PROVE  keys' = keys /\ Spent' = Spent
<1>1. CASE UNCHANGED <<keys, challenge>>
  BY <1>1 DEF Spent
<1>2. ASSUME NEW c \in Challenges, MintChallenge(c) \/ ExpireChallenge(c) PROVE keys' = keys /\ Spent' = Spent
  BY <1>2 DEF MintChallenge, ExpireChallenge, Spent, TypeOK, TablesType
<1> QED
  BY <1>1, <1>2
     DEF Next, vars, tables, Mint, Expire, AccessArrives, ReadArrives, RegisterArrives, Arrive,
         VerifySignature, TakeLock, Begin, ReadHead, Insert, Commits, Send, Fail, FailCommitted, Crash

\* A commit adds a row of its kind.
LEMMA RowCounted ==
  ASSUME TypeOK, NEW x \in Handlers, Commits(x), NEW k \in {"access", "read"}
  PROVE  /\ RowsOf(k)' = IF h[x].kind = k THEN RowsOf(k) + 1 ELSE RowsOf(k)
         /\ RowsOf(k) \in Nat
<1>1. h[x] \in Requests /\ h[x].kind \in Kinds
  BY DEF TypeOK, HandlersType, Requests
<1>2. IsFiniteSet(1..Len(audit))
  BY FS_Interval DEF TypeOK, ChainsType
<1>3. ReadRows \subseteq 1..Len(audit) /\ IsFiniteSet(ReadRows) /\ Cardinality(ReadRows) \in Nat
  BY <1>2, NoMore DEF ReadRows
<1>4. CASE h[x].kind = "access"
  <2>1. Len(journal') = Len(journal) + 1 /\ audit' = audit /\ Len(journal) \in Nat
    BY <1>4 DEF Commits, TypeOK, ChainsType
  <2> QED
    BY <1>3, <1>4, <2>1 DEF RowsOf, ReadRows
<1>5. CASE h[x].kind # "access"
  <2> DEFINE row == [kind |-> h[x].kind, prev |-> h[x].head]
             Row == [kind : {"read", "register"}, prev : Nat]
             n == Len(audit) + 1
  <2>1. audit' = Append(audit, row) /\ journal' = journal /\ audit \in Seq(Row) /\ Len(journal) \in Nat
    BY <1>5 DEF Commits, TypeOK, ChainsType
  <2> HIDE DEF row, Row
  <2>2. /\ Len(audit) \in Nat /\ Len(audit') = n
        /\ \A i \in 1..Len(audit) : audit'[i] = audit[i]
        /\ audit'[n] = row
    BY <2>1
  <2>3. row.kind = h[x].kind
    BY DEF row
  <2>4. CASE h[x].kind = "read"
    <3>1. ReadRows' = ReadRows \cup {n} /\ n \notin ReadRows
      BY <2>2, <2>3, <2>4 DEF ReadRows
    <3>2. Cardinality(ReadRows') = Cardinality(ReadRows) + 1
      BY <1>3, <3>1, FS_AddElement
    <3> QED
      BY <1>3, <2>1, <2>4, <3>2 DEF RowsOf
  <2>5. CASE h[x].kind # "read"
    <3>1. ReadRows' = ReadRows
      BY <2>2, <2>3, <2>5 DEF ReadRows
    <3> QED
      BY <1>3, <1>5, <2>1, <2>5, <3>1 DEF RowsOf
  <2> QED
    BY <2>4, <2>5
<1> QED
  BY <1>4, <1>5

LEMMA BodiesStart == Init => BodyInv
<1> SUFFICES ASSUME Init, NEW k \in {"access", "read"}
             PROVE  IsFiniteSet(Sending(k)) /\ bodies[k] + Cardinality(Sending(k)) <= RowsOf(k)
  BY DEF BodyInv
<1>1. Sending(k) = {} /\ ReadRows = {}
  BY FreeType DEF Init, Sending, ReadRows
<1> QED
  BY <1>1, FS_EmptySet DEF Init, RowsOf

LEMMA BodiesKept == TypeOK /\ BodyInv /\ [Next]_vars => BodyInv'
<1> SUFFICES ASSUME TypeOK, BodyInv, [Next]_vars, NEW k \in {"access", "read"}
             PROVE  IsFiniteSet(Sending(k)') /\ (bodies[k] + Cardinality(Sending(k)) <= RowsOf(k))'
  BY DEF BodyInv
<1>1. h \in [Handlers -> Requests] /\ bodies[k] \in Nat /\ DOMAIN bodies = {"access", "read"}
  BY DEF TypeOK, HandlersType, CountsType
<1>2. IsFiniteSet(Sending(k)) /\ bodies[k] + Cardinality(Sending(k)) <= RowsOf(k) /\ RowsOf(k) \in Nat
  <2>1. Len(journal) \in Nat /\ ReadRows \subseteq 1..Len(audit) /\ IsFiniteSet(1..Len(audit))
    BY FS_Interval DEF ReadRows, TypeOK, ChainsType
  <2> QED
    BY <2>1, NoMore DEF BodyInv, RowsOf
<1>3. ASSUME NEW x \in Handlers, Insert(x)
      PROVE  IsFiniteSet(Sending(k)') /\ (bodies[k] + Cardinality(Sending(k)) <= RowsOf(k))'
  <2>1. Commits(x) /\ bodies' = bodies
    BY <1>3 DEF Insert, counts
  <2>2. h'[x].kind = h[x].kind /\ \A y \in Handlers : y # x => h'[y] = h[y]
    BY <1>1, <1>3 DEF Insert, Requests
  <2>3. CASE h[x].kind = k
    <3>1. Sending(k)' \subseteq Sending(k) \cup {x}
      BY <2>2 DEF Sending
    <3> QED
      BY <1>1, <1>2, <2>1, <2>3, <3>1, OneMore, RowCounted
  <2>4. CASE h[x].kind # k
    <3>1. Sending(k)' \subseteq Sending(k)
      BY <2>2, <2>4 DEF Sending
    <3> QED
      BY <1>1, <1>2, <2>1, <2>4, <3>1, NoMore, RowCounted
  <2> QED
    BY <2>3, <2>4
<1>4. ASSUME NEW x \in Handlers, FailCommitted(x)
      PROVE  IsFiniteSet(Sending(k)') /\ (bodies[k] + Cardinality(Sending(k)) <= RowsOf(k))'
  <2>1. Commits(x) /\ bodies' = bodies
    BY <1>4 DEF FailCommitted
  <2>2. Sending(k)' \subseteq Sending(k)
    BY <1>1, <1>4, FreeType DEF FailCommitted, Ends, Sending
  <2> QED
    BY <1>1, <1>2, <2>1, <2>2, NoMore, RowCounted
<1>5. ASSUME NEW x \in Handlers, Send(x)
      PROVE  IsFiniteSet(Sending(k)') /\ (bodies[k] + Cardinality(Sending(k)) <= RowsOf(k))'
  <2>1. RowsOf(k)' = RowsOf(k)
    BY <1>5 DEF Send, RowsOf, ReadRows, chains
  <2>2. Sending(k)' \subseteq Sending(k) \ {x}
    BY <1>1, <1>5, FreeType DEF Send, Sending
  <2>3. bodies'[k] = bodies[k] + IF k = h[x].kind THEN 1 ELSE 0
    BY <1>1, <1>5 DEF Send
  <2>4. CASE h[x].kind = k
    <3>1. x \in Sending(k)
      BY <1>5, <2>4 DEF Send, Sending
    <3>2. IsFiniteSet(Sending(k)') /\ Cardinality(Sending(k)') + 1 <= Cardinality(Sending(k))
          /\ Cardinality(Sending(k)) \in Nat /\ Cardinality(Sending(k)') \in Nat
      BY <1>2, <2>2, <3>1, OneLess
    <3> QED
      BY <1>1, <1>2, <2>1, <2>3, <2>4, <3>2
  <2>5. CASE h[x].kind # k
    <3>1. IsFiniteSet(Sending(k)') /\ Cardinality(Sending(k)') <= Cardinality(Sending(k))
          /\ Cardinality(Sending(k)) \in Nat /\ Cardinality(Sending(k)') \in Nat
      BY <1>2, <2>2, NoMore
    <3> QED
      BY <1>1, <1>2, <2>1, <2>3, <2>5, <3>1
  <2> QED
    BY <2>4, <2>5
<1>6. CASE ~ \E x \in Handlers : Insert(x) \/ FailCommitted(x) \/ Send(x)
  <2>1. UNCHANGED <<chains, bodies>>
    BY <1>6, BodiesAlone
  <2>2. RowsOf(k)' = RowsOf(k)
    BY <2>1 DEF RowsOf, ReadRows, chains
  <2>3. Sending(k)' \subseteq Sending(k)
    <3>1. CASE \E x \in Handlers : SpendChallenge(x)
      <4>1. PICK x \in Handlers : SpendChallenge(x)
        BY <3>1
      <4>2. h'[x].at # "send" /\ \A y \in Handlers : y # x => h'[y] = h[y]
        BY <1>1, <4>1 DEF SpendChallenge, Goes, Requests
      <4> QED
        BY <4>2 DEF Sending
    <3>2. CASE ~ \E x \in Handlers : SpendChallenge(x)
      <4>1. \A y \in Handlers : h'[y] = h[y] \/ h'[y].at # "send"
        BY <1>6, <3>2, Elsewhere
      <4> QED
        BY <4>1 DEF Sending
    <3> QED
      BY <3>1, <3>2
  <2>4. IsFiniteSet(Sending(k)') /\ Cardinality(Sending(k)') <= Cardinality(Sending(k))
        /\ Cardinality(Sending(k)) \in Nat /\ Cardinality(Sending(k)') \in Nat
    BY <1>2, <2>3, NoMore
  <2> QED
    BY <1>1, <1>2, <2>1, <2>2, <2>4
<1> QED
  BY <1>3, <1>4, <1>5, <1>6

\* EvidenceFirst: whichever handlers fail, are cancelled or die with their process,
\* no more bodies leave than rows were committed for them.
THEOREM EvidenceFirstHolds == Spec => []EvidenceFirst
<1>1. TypeOK /\ BodyInv => EvidenceFirst
  <2> SUFFICES ASSUME TypeOK, BodyInv PROVE EvidenceFirst
    OBVIOUS
  <2>1. Len(journal) \in Nat /\ ReadRows \subseteq 1..Len(audit) /\ IsFiniteSet(1..Len(audit))
    BY FS_Interval DEF ReadRows, TypeOK, ChainsType
  <2>2. \A k \in {"access", "read"} : bodies[k] \in Nat /\ Cardinality(Sending(k)) \in Nat /\ RowsOf(k) \in Nat
    BY <2>1, NoMore, FS_CardinalityType DEF BodyInv, RowsOf, TypeOK, CountsType
  <2>3. \A k \in {"access", "read"} : bodies[k] <= RowsOf(k)
    BY <2>2 DEF BodyInv
  <2> QED
    BY <2>3 DEF EvidenceFirst, RowsOf, ReadRows
<1> QED
  BY <1>1, JournalTypeCorrect, BodiesStart, BodiesKept, PTL DEF Spec

LEMMA KeysStart == Init => KeyInv
<1> SUFFICES ASSUME Init PROVE KeyInv
  OBVIOUS
<1>1. Known = {} /\ Recording = {} /\ Spent = {}
  BY FreeType DEF Init, Known, Recording, Spent
<1> QED
  BY <1>1, FreeType, FS_EmptySet DEF Init, KeyInv

LEMMA KeysKept == TypeOK /\ KeyInv /\ [Next]_vars => KeyInv'
<1> SUFFICES ASSUME TypeOK, KeyInv, [Next]_vars PROVE KeyInv'
  OBVIOUS
<1>1. /\ h \in [Handlers -> Requests] /\ challenge \in [Challenges -> Tokens]
      /\ keys \in [Keys -> {"none", "active", "retired"}]
  BY DEF TypeOK, HandlersType, TablesType
<1>2. /\ IsFiniteSet(Known) /\ IsFiniteSet(Recording) /\ IsFiniteSet(Spent)
      /\ Cardinality(Known) + Cardinality(Recording) <= Cardinality(Spent)
      /\ Cardinality(Known) \in Nat /\ Cardinality(Recording) \in Nat /\ Cardinality(Spent) \in Nat
  BY FS_CardinalityType DEF KeyInv
<1>3. ASSUME NEW x \in Handlers, SpendChallenge(x) PROVE KeyInv'
  <2>1. /\ h'[x].at \in {"record", "lock"} /\ \A y \in Handlers : y # x => h'[y] = h[y]
        /\ h[x].at = "challenge" /\ keys' = keys /\ Known' = Known
    BY <1>1, <1>3 DEF SpendChallenge, Goes, Requests, Known
  <2> DEFINE c == h[x].token
  <2>2. CASE challenge[c] # "consumed" /\ h[x].fresh
    <3>1. challenge' = [challenge EXCEPT ![c] = "consumed"] /\ c \in Challenges
      BY <1>3, <2>1, <2>2 DEF SpendChallenge, KeyInv
    <3>2. Spent' = Spent \cup {c} /\ c \notin Spent
      BY <1>1, <2>2, <3>1 DEF Spent
    <3>3. IsFiniteSet(Spent') /\ Cardinality(Spent') = Cardinality(Spent) + 1
      BY <1>2, <3>2, FS_AddElement
    <3>4. Recording' \subseteq Recording \cup {x}
      BY <2>1 DEF Recording
    <3>5. IsFiniteSet(Recording') /\ Cardinality(Recording') <= Cardinality(Recording) + 1
          /\ Cardinality(Recording') \in Nat
      BY <1>2, <3>4, OneMore
    <3> QED
      BY <1>2, <2>1, <3>3, <3>5 DEF KeyInv
  <2>3. CASE ~ (challenge[c] # "consumed" /\ h[x].fresh)
    <3>1. challenge' = challenge /\ Spent' = Spent /\ h'[x].at = "lock"
      BY <1>1, <1>3, <2>3 DEF SpendChallenge, Goes, Requests, Spent
    <3>2. Recording' \subseteq Recording
      BY <2>1, <3>1 DEF Recording
    <3>3. IsFiniteSet(Recording') /\ Cardinality(Recording') <= Cardinality(Recording)
          /\ Cardinality(Recording') \in Nat
      BY <1>2, <3>2, NoMore
    <3> QED
      BY <1>2, <2>1, <3>1, <3>3 DEF KeyInv
  <2> QED
    BY <2>2, <2>3
<1>4. CASE ~ \E x \in Handlers : SpendChallenge(x)
  <2>1. \A y \in Handlers : \/ h'[y] = h[y]
                            \/ h'[y].at # "record" /\ (h'[y].at = "challenge" => h'[y].token \in Challenges)
    <3>1. CASE \E x \in Handlers : Insert(x)
      <4>1. PICK x \in Handlers : Insert(x)
        BY <3>1
      <4>2. h'[x].at = "send" /\ \A y \in Handlers : y # x => h'[y] = h[y]
        BY <1>1, <4>1 DEF Insert, Requests
      <4> QED
        BY <4>2
    <3>2. CASE ~ \E x \in Handlers : Insert(x)
      BY <1>4, <3>2, Elsewhere
    <3> QED
      BY <3>1, <3>2
  <2>2. /\ Recording' \subseteq Recording
        /\ \A x \in Handlers : h'[x].at = "challenge" => h'[x].token \in Challenges
    BY <2>1 DEF Recording, KeyInv
  <2>3. ASSUME NEW x \in Handlers, RecordKey(x) PROVE KeyInv'
    <3>1. h[x].at = "record" /\ challenge' = challenge /\ Spent' = Spent
      BY <2>3 DEF RecordKey, Spent
    <3>2. x \in Recording /\ Recording' \subseteq Recording \ {x}
      <4>1. h'[x].at # "record"
        BY <1>1, <2>3, FreeType DEF RecordKey, Goes, Ends, Requests
      <4> QED
        BY <2>2, <3>1, <4>1 DEF Recording
    <3>3. IsFiniteSet(Recording') /\ Cardinality(Recording') + 1 <= Cardinality(Recording)
          /\ Cardinality(Recording') \in Nat
      BY <1>2, <3>2, OneLess
    <3>4. CASE keys[h[x].signed] = "none"
      <4>1. keys' = [k \in Keys |-> IF k = h[x].signed THEN "active"
                                    ELSE IF keys[k] = "active" THEN "retired" ELSE keys[k]]
        BY <2>3, <3>4 DEF RecordKey
      <4>2. \A k, l \in Keys : keys'[k] = "active" /\ keys'[l] = "active" => k = l
        BY <4>1
      <4>3. Known' \subseteq Known \cup {h[x].signed}
        BY <4>1 DEF Known
      <4>4. IsFiniteSet(Known') /\ Cardinality(Known') <= Cardinality(Known) + 1 /\ Cardinality(Known') \in Nat
        BY <1>2, <4>3, OneMore
      <4> QED
        BY <1>2, <2>2, <3>1, <3>3, <4>2, <4>4 DEF KeyInv
    <3>5. CASE keys[h[x].signed] # "none"
      <4>1. keys' = keys /\ Known' = Known
        BY <2>3, <3>5 DEF RecordKey, Known
      <4> QED
        BY <1>2, <2>2, <3>1, <3>3, <4>1 DEF KeyInv
    <3> QED
      BY <3>4, <3>5
  <2>4. CASE ~ \E x \in Handlers : RecordKey(x)
    <3>1. keys' = keys /\ Spent' = Spent /\ Known' = Known
      BY <1>4, <2>4, KeysAlone DEF Known
    <3>2. IsFiniteSet(Recording') /\ Cardinality(Recording') <= Cardinality(Recording)
          /\ Cardinality(Recording') \in Nat
      BY <1>2, <2>2, NoMore
    <3> QED
      BY <1>2, <2>2, <3>1, <3>2 DEF KeyInv
  <2> QED
    BY <2>3, <2>4
<1> QED
  BY <1>3, <1>4

\* KeyPerChallenge: registrations that overlap, fail or die between the spent
\* challenge and the recorded key never leave a key without a challenge of its
\* own, nor two active ones.
THEOREM KeyPerChallengeHolds == Spec => []KeyPerChallenge
<1>1. KeyInv => KeyPerChallenge
  <2> SUFFICES ASSUME KeyInv PROVE KeyPerChallenge
    OBVIOUS
  <2> DEFINE Active == {k \in Keys : keys[k] = "active"}
  <2>1. Cardinality(Active) <= 1
    <3>1. CASE Active = {}
      BY <3>1, FS_EmptySet
    <3>2. CASE Active # {}
      <4>1. PICK k \in Keys : keys[k] = "active"
        BY <3>2
      <4>2. Active = {k}
        BY <4>1 DEF KeyInv
      <4> QED
        BY <4>2, FS_Singleton
    <3> QED
      BY <3>1, <3>2
  <2>2. Cardinality(Known) <= Cardinality(Spent)
    BY FS_CardinalityType DEF KeyInv
  <2> QED
    BY <2>1, <2>2 DEF KeyPerChallenge, Known, Spent
<1> QED
  BY <1>1, JournalTypeCorrect, KeysStart, KeysKept, PTL DEF Spec
=============================================================================
