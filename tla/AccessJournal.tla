---------------------------- MODULE AccessJournal ----------------------------
(***************************************************************************)
(* The evidence chains of audit.db and the requests that append to them.   *)
(*                                                                         *)
(* Fetching a file takes an acknowledgment nonce and the signature of the  *)
(* user's active key; the access is journalled, with the nonce, in one     *)
(* transaction before a byte is sent.  A read of the evidence surface      *)
(* appends to the audit chain before its body is sent.  Registering a      *)
(* signing key spends a challenge, rotates the key and is audited.  A row  *)
(* of either chain hashes the row before it, so that a writer reads the    *)
(* head and inserts under a lock of its process and one of the database.   *)
(*                                                                         *)
(* A hash is the position of the row it belongs to.  One user; requests    *)
(* that are refused before they reach audit.db, for clearance, tier or     *)
(* content, change nothing and are left out.                               *)
(***************************************************************************)
EXTENDS Naturals, FiniteSets, Sequences

CONSTANTS
  Handlers,    \* requests that run at once
  Processes,   \* API processes
  ProcessOf,   \* the process of each handler
  Backends,    \* subset of {"sqlite", "postgres"}
  Nonces,      \* acknowledgments that can be minted
  Challenges,  \* registration challenges that can be minted
  Keys,        \* key pairs of the user
  NoOne,       \* no handler, nonce or key
  MaxRequests, \* bound: requests
  MaxFaults    \* bound: failures and crashes

ASSUME JournalConstants ==
  /\ ProcessOf \in [Handlers -> Processes]
  /\ Backends \subseteq {"sqlite", "postgres"}
  /\ NoOne \notin Handlers \cup Nonces \cup Challenges \cup Keys
  /\ {MaxRequests, MaxFaults} \subseteq Nat

VARIABLES
  backend,    \* which database it is
  ack,        \* the acknowledgments
  challenge,  \* the registration challenges
  keys,       \* the user's key history
  journal,    \* file_access_journal, in the order of seq
  audit,      \* audit_log, in the order of seq
  h,          \* the handlers
  held,       \* holder of each process's _audit_write_lock
  writing,    \* holder of each lock of the database
  bodies,     \* history: bodies sent, by kind of request
  requests,   \* requests so far
  faults      \* failures and crashes so far

chains  == <<journal, audit>>
locks   == <<held, writing>>
tables  == <<ack, challenge, keys>>
counts  == <<bodies, requests, faults>>
vars == <<backend, tables, chains, h, locks, counts>>

-----------------------------------------------------------------------------
(* State. *)

Kinds  == {"access", "read", "register"}
Tokens == {"none", "live", "expired", "consumed"}

\* Where a handler is.  "key": the checks of an access.  "challenge", "record": a
\* registration.  "lock" to "insert": an append, which AuditEmitter.emit puts on the
\* bus first.  "send": the row is committed.
Points == {"idle", "key", "challenge", "record", "lock", "begin", "head", "insert", "send"}

\* token: the nonce or challenge of the request; signed: the key its signature
\* is made with; fresh: the token was live when the request took the time; head:
\* the row its append hashes.
Free == [at |-> "idle", kind |-> "read", token |-> NoOne, signed |-> NoOne, fresh |-> FALSE, head |-> 0]

ChainOf(x) == IF h[x].kind = "access" THEN "journal" ELSE "audit"

\* BEGIN IMMEDIATE locks the file of both chains, pg_advisory_xact_lock one chain.
LockOf(x) == IF backend = "sqlite" THEN "file" ELSE ChainOf(x)

\* Short transactions of audit.db wait for the file's writer.
FileFree == backend = "sqlite" => writing["file"] = NoOne

Init ==
  /\ backend \in Backends
  /\ ack = [n \in Nonces |-> "none"] /\ challenge = [c \in Challenges |-> "none"]
  /\ keys = [k \in Keys |-> "none"]
  /\ journal = <<>> /\ audit = <<>>
  /\ h = [x \in Handlers |-> Free]
  /\ held = [p \in Processes |-> NoOne]
  /\ writing = [l \in {"file", "journal", "audit"} |-> NoOne]
  /\ bodies = [k \in {"access", "read"} |-> 0]
  /\ requests = 0 /\ faults = 0

-----------------------------------------------------------------------------
(* Tokens. *)

\* A manifest mints an acknowledgment.
Mint(n) ==
  /\ ack[n] = "none" /\ FileFree
  /\ ack' = [ack EXCEPT ![n] = "live"]
  /\ UNCHANGED <<backend, challenge, keys, chains, h, locks, counts>>

MintChallenge(c) ==
  /\ challenge[c] = "none" /\ FileFree
  /\ challenge' = [challenge EXCEPT ![c] = "live"]
  /\ UNCHANGED <<backend, ack, keys, chains, h, locks, counts>>

\* The 60 seconds of a token are over.
Expire(n) ==
  /\ ack[n] = "live"
  /\ ack' = [ack EXCEPT ![n] = "expired"]
  /\ UNCHANGED <<backend, challenge, keys, chains, h, locks, counts>>

ExpireChallenge(c) ==
  /\ challenge[c] = "live"
  /\ challenge' = [challenge EXCEPT ![c] = "expired"]
  /\ UNCHANGED <<backend, ack, keys, chains, h, locks, counts>>

-----------------------------------------------------------------------------
(* Requests. *)

Arrive(x, request) ==
  /\ h[x] = Free /\ requests < MaxRequests
  /\ requests' = requests + 1
  /\ h' = [h EXCEPT ![x] = request]
  /\ UNCHANGED <<backend, tables, chains, locks, bodies, faults>>

\* A fetch, or a fetch sent again, with a nonce of a manifest and the signature
\* of a key that is or was the user's.
AccessArrives(x) ==
  \E n \in Nonces, k \in Keys :
    /\ ack[n] # "none" /\ keys[k] # "none"
    /\ Arrive(x, [Free EXCEPT !.at = "key", !.kind = "access", !.token = n, !.signed = k])

\* A GET that the evidence surface has answered: audited before it is sent.
ReadArrives(x) == Arrive(x, [Free EXCEPT !.at = "lock", !.kind = "read"])

\* A proof of possession of k for a challenge, in time or not.
RegisterArrives(x) ==
  \E c \in Challenges, k \in Keys :
    /\ challenge[c] # "none"
    /\ Arrive(x, [Free EXCEPT !.at = "challenge", !.kind = "register", !.token = c, !.signed = k,
                              !.fresh = challenge[c] # "expired"])

Goes(x, point) == h' = [h EXCEPT ![x].at = point]

\* The handler ends with what it holds given back, its transaction rolled back.
Ends(x) ==
  /\ h' = [h EXCEPT ![x] = Free]
  /\ held' = [p \in Processes |-> IF held[p] = x THEN NoOne ELSE held[p]]
  /\ writing' = [l \in DOMAIN writing |-> IF writing[l] = x THEN NoOne ELSE writing[l]]

\* The signature is verified against the key that is active, and the time taken.
VerifySignature(x) ==
  /\ h[x].at = "key"
  /\ IF keys[h[x].signed] = "active"
       THEN h' = [h EXCEPT ![x].at = "lock", ![x].fresh = ack[h[x].token] # "expired"]
       ELSE h' = [h EXCEPT ![x] = Free]
  /\ UNCHANGED <<backend, tables, chains, locks, counts>>

\* Mutant of SpendChallenge: not conditional.
SpendChallengeAnyway(x) ==
  /\ h[x].at = "challenge" /\ FileFree
  /\ challenge' = [challenge EXCEPT ![h[x].token] = "consumed"]
  /\ Goes(x, "record")
  /\ UNCHANGED <<backend, ack, keys, chains, locks, counts>>

\* consume_signing_key_challenge; a refusal is audited as well.
SpendChallenge(x) ==
  /\ h[x].at = "challenge" /\ FileFree
  /\ IF challenge[h[x].token] # "consumed" /\ h[x].fresh
       THEN /\ challenge' = [challenge EXCEPT ![h[x].token] = "consumed"]
            /\ Goes(x, "record")
       ELSE Goes(x, "lock") /\ UNCHANGED challenge
  /\ UNCHANGED <<backend, ack, keys, chains, locks, counts>>

\* record_signing_key: retire the active key, insert this one; a key that is in
\* the history is refused by its unique index.
RecordKey(x) ==
  /\ h[x].at = "record" /\ FileFree
  /\ IF keys[h[x].signed] = "none"
       THEN /\ keys' = [k \in Keys |-> IF k = h[x].signed THEN "active"
                                       ELSE IF keys[k] = "active" THEN "retired" ELSE keys[k]]
            /\ Goes(x, "lock") /\ UNCHANGED locks
       ELSE Ends(x) /\ UNCHANGED keys
  /\ UNCHANGED <<backend, ack, challenge, chains, counts>>

-----------------------------------------------------------------------------
(* The append: one lock of the process, one of the database. *)

TakeLock(x) ==
  /\ h[x].at = "lock" /\ held[ProcessOf[x]] = NoOne
  /\ held' = [held EXCEPT ![ProcessOf[x]] = x]
  /\ Goes(x, "begin")
  /\ UNCHANGED <<backend, tables, chains, writing, counts>>

Spendable(x) == h[x].kind = "access" => ack[h[x].token] # "consumed" /\ h[x].fresh

\* Mutants of Begin: a deferred BEGIN takes no lock before the insert, and a
\* nonce is spent whatever its state.
BeginDeferred(x) ==
  /\ h[x].at = "begin"
  /\ IF Spendable(x) THEN Goes(x, "head") /\ UNCHANGED locks ELSE Ends(x)
  /\ UNCHANGED <<backend, tables, chains, counts>>

BeginAnyway(x) ==
  /\ h[x].at = "begin" /\ writing[LockOf(x)] = NoOne
  /\ writing' = [writing EXCEPT ![LockOf(x)] = x]
  /\ Goes(x, "head") /\ UNCHANGED held
  /\ UNCHANGED <<backend, tables, chains, counts>>

\* BEGIN IMMEDIATE, or the advisory lock; then _consume_nonce_locked, with the
\* time of the request: not yet to be seen by others.  A nonce that cannot be
\* spent rolls the transaction back.
Begin(x) ==
  /\ h[x].at = "begin" /\ writing[LockOf(x)] = NoOne
  /\ IF Spendable(x)
       THEN /\ writing' = [writing EXCEPT ![LockOf(x)] = x]
            /\ Goes(x, "head") /\ UNCHANGED held
       ELSE Ends(x)
  /\ UNCHANGED <<backend, tables, chains, counts>>

Chain(x) == IF h[x].kind = "access" THEN journal ELSE audit

ReadHead(x) ==
  /\ h[x].at = "head"
  /\ h' = [h EXCEPT ![x].at = "insert", ![x].head = Len(Chain(x))]
  /\ UNCHANGED <<backend, tables, chains, locks, counts>>

\* INSERT and COMMIT.
Commits(x) ==
  /\ h[x].at = "insert"
  /\ IF h[x].kind = "access"
       THEN /\ journal' = Append(journal, [nonce |-> h[x].token, prev |-> h[x].head])
            /\ ack' = [ack EXCEPT ![h[x].token] = "consumed"]
            /\ UNCHANGED audit
       ELSE /\ audit' = Append(audit, [kind |-> h[x].kind, prev |-> h[x].head])
            /\ UNCHANGED <<journal, ack>>
  /\ UNCHANGED <<backend, challenge, keys>>

Insert(x) ==
  /\ Commits(x)
  /\ h' = [h EXCEPT ![x].at = "send", ![x].head = 0]
  /\ held' = [held EXCEPT ![ProcessOf[x]] = NoOne]
  /\ writing' = [writing EXCEPT ![LockOf(x)] = NoOne]
  /\ UNCHANGED counts

Send(x) ==
  /\ h[x].at = "send"
  /\ bodies' = [k \in DOMAIN bodies |-> bodies[k] + IF k = h[x].kind THEN 1 ELSE 0]
  /\ h' = [h EXCEPT ![x] = Free]
  /\ UNCHANGED <<backend, tables, chains, locks, requests, faults>>

-----------------------------------------------------------------------------
(* Failures. *)

Fault == faults < MaxFaults /\ faults' = faults + 1

\* Mutant of Fail: a body whose row could not be written is sent.
FailOpen(x) ==
  /\ h[x] # Free /\ Fault
  /\ Ends(x)
  /\ bodies' = [k \in DOMAIN bodies |-> bodies[k] + IF k = h[x].kind THEN 1 ELSE 0]
  /\ UNCHANGED <<backend, tables, chains, requests>>

\* Mutant of Fail: an exception in the transaction is not followed by a ROLLBACK.
FailNoRollback(x) ==
  /\ h[x] # Free /\ Fault
  /\ h' = [h EXCEPT ![x] = Free]
  /\ held' = [p \in Processes |-> IF held[p] = x THEN NoOne ELSE held[p]]
  /\ UNCHANGED <<backend, tables, chains, writing, bodies, requests>>

\* The bus, the database or the file fails, a wait for a lock times out, or the
\* client goes away and the handler is cancelled.
Fail(x) ==
  /\ h[x] # Free /\ Fault
  /\ Ends(x)
  /\ UNCHANGED <<backend, tables, chains, bodies, requests>>

\* Cancelled while it waits for the COMMIT.
FailCommitted(x) ==
  /\ Commits(x) /\ Fault
  /\ Ends(x)
  /\ UNCHANGED <<bodies, requests>>

\* A process dies; its transactions are rolled back.
Crash(p) ==
  /\ \E x \in Handlers : ProcessOf[x] = p /\ h[x] # Free
  /\ Fault
  /\ h' = [x \in Handlers |-> IF ProcessOf[x] = p THEN Free ELSE h[x]]
  /\ held' = [held EXCEPT ![p] = NoOne]
  /\ writing' = [l \in DOMAIN writing |->
                   IF writing[l] # NoOne /\ ProcessOf[writing[l]] = p THEN NoOne ELSE writing[l]]
  /\ UNCHANGED <<backend, tables, chains, bodies, requests>>

-----------------------------------------------------------------------------

Next ==
  \/ \E n \in Nonces : Mint(n) \/ Expire(n)
  \/ \E c \in Challenges : MintChallenge(c) \/ ExpireChallenge(c)
  \/ \E x \in Handlers :
       \/ AccessArrives(x) \/ ReadArrives(x) \/ RegisterArrives(x)
       \/ VerifySignature(x) \/ SpendChallenge(x) \/ RecordKey(x)
       \/ TakeLock(x) \/ Begin(x) \/ ReadHead(x) \/ Insert(x) \/ Send(x)
       \/ Fail(x) \/ FailCommitted(x)
  \/ \E p \in Processes : Crash(p)

Spec == Init /\ [][Next]_vars

-----------------------------------------------------------------------------
(* Properties. *)

Requests ==
  [at : Points, kind : Kinds, token : Nonces \cup Challenges \cup {NoOne},
   signed : Keys \cup {NoOne}, fresh : BOOLEAN, head : Nat]

TablesType ==
  /\ backend \in Backends
  /\ ack \in [Nonces -> Tokens] /\ challenge \in [Challenges -> Tokens]
  /\ keys \in [Keys -> {"none", "active", "retired"}]
ChainsType ==
  /\ journal \in Seq([nonce : Nonces, prev : Nat])
  /\ audit \in Seq([kind : {"read", "register"}, prev : Nat])
HandlersType ==
  /\ h \in [Handlers -> Requests]
  /\ \A x \in Handlers : h[x].kind = "access" => h[x].token \in Nonces
LocksType ==
  /\ held \in [Processes -> Handlers \cup {NoOne}]
  /\ writing \in [{"file", "journal", "audit"} -> Handlers \cup {NoOne}]
CountsType ==
  /\ bodies \in [{"access", "read"} -> Nat]
  /\ requests \in 0..MaxRequests /\ faults \in 0..MaxFaults

\* Every row of the journal is for a nonce that was minted, of the audit chain
\* for a read or a registration.
TypeOK == TablesType /\ ChainsType /\ HandlersType /\ LocksType /\ CountsType

\* The chains "can never fork": each row hashes the row before it, whichever
\* processes append at once and fail, so that a verification walks them through.
ChainsVerify ==
  /\ \A i \in 1..Len(journal) : journal[i].prev = i - 1
  /\ \A i \in 1..Len(audit) : audit[i].prev = i - 1

\* "Never a burned nonce without a row, never a row without a consumed nonce":
\* a nonce is spent when a row of the journal names it, and one row does.
NonceSpentByOneRow ==
  \A n \in Nonces :
    Cardinality({i \in 1..Len(journal) : journal[i].nonce = n})
      = IF ack[n] = "consumed" THEN 1 ELSE 0

\* "Bytes flow only after the journal row is durably written", and no evidence
\* is served without an audit row: there is a row for every body sent.
EvidenceFirst ==
  /\ bodies["access"] <= Len(journal)
  /\ bodies["read"] <= Cardinality({i \in 1..Len(audit) : audit[i].kind = "read"})

\* One key at most is active, and every key was registered with a challenge of
\* its own, whatever registrations run at once or stop halfway.
KeyPerChallenge ==
  /\ Cardinality({k \in Keys : keys[k] = "active"}) <= 1
  /\ Cardinality({k \in Keys : keys[k] # "none"})
       <= Cardinality({c \in Challenges : challenge[c] = "consumed"})

\* "The single writer": who holds a lock is appending, so that no way an append
\* can end leaves a lock behind that the others wait for.
LocksReturned ==
  /\ \A p \in Processes : held[p] # NoOne =>
       ProcessOf[held[p]] = p /\ h[held[p]].at \in {"begin", "head", "insert"}
  /\ \A l \in DOMAIN writing : writing[l] # NoOne =>
       LockOf(writing[l]) = l /\ h[writing[l]].at \in {"head", "insert"}
=============================================================================
