---------------------------- MODULE MintSessions ----------------------------
(***************************************************************************)
(* A CorePass mint session from QR code to delivered cat: the session row  *)
(* in SQLite (mint-backend storage.py), the web handlers that change it    *)
(* (web/lib/server/corepass-mint-sessions.js), the FinalizeWorker          *)
(* (mint-backend finalize_worker.py) and the chain they act on.            *)
(*                                                                         *)
(* Nobody locks a row.  A handler and the worker each read the whole       *)
(* record, wait for the chain or for the relayer, and write the whole      *)
(* record back, so every step below works on a private copy that may be    *)
(* stale when it is written.                                               *)
(*                                                                         *)
(* Each session belongs to a wallet of its own.  Texts, timestamps, retry  *)
(* counts, the history, the stuck marker and the audit tables are left     *)
(* out; that they alone may cause a write is kept (Upsert).                *)
(***************************************************************************)
EXTENDS Naturals, FiniteSets

CONSTANTS
    Sessions,
    Handlers,       \* requests the web server serves at the same time
    CommitTx,       \* the commit transaction of a session's wallet
    ManualTxs,      \* finalize transactions sent by the wallet itself
    RelayTxs,       \* bound: finalize transactions the relayer may broadcast
    None,           \* no transaction hash, no row, no session
    MaxIdentify, MaxCommit, MaxFinalize, MaxRelay,  \* bounds: requests per session
    WindowCloses    \* whether the finalize window may run out

ASSUME MintSessionsAssumption ==
    /\ {MaxIdentify, MaxCommit, MaxFinalize, MaxRelay} \subseteq Nat
    /\ WindowCloses \in BOOLEAN
    /\ None \notin Sessions \cup {CommitTx} \cup ManualTxs \cup RelayTxs
    /\ CommitTx \notin ManualTxs \cup RelayTxs
    /\ ManualTxs \cap RelayTxs = {}
    /\ {"finalize_expired", "failed"} \cap RelayTxs = {}     \* reasons are no hashes

VARIABLES
    phase,          \* each wallet's commit, as in CommitLife
    tx,             \* each session's transactions: "unsent" or their receipt
    row,            \* mint_sessions: payload_json, or None
    handler,        \* a request being served: its step, session and copy
    worker,         \* the sweep in progress
    calls           \* how many requests of each kind a session had

vars == <<phase, tx, row, handler, worker, calls>>

Txs == {CommitTx} \cup ManualTxs \cup RelayTxs
FinalizeTxs == ManualTxs \cup RelayTxs

Chain == INSTANCE CommitLife WITH Wallets <- Sessions

-----------------------------------------------------------------------------
(* The session record, and what each writer does to its copy.  `ttl` tells *)
(* an expiry set at creation from one extended by a later callback.        *)

NewSession ==
    [status |-> "awaiting_identity", ttl |-> "short",
     commit |-> "none", commitTx |-> None,
     finalize |-> "none", finalizeTx |-> None, confirmed |-> FALSE, mode |-> "manual"]

(* buildCommitRequest: a fresh request replaces the one before. *)
CommitRequested(b) ==
    [b EXCEPT !.status = "awaiting_commit", !.commit = "awaiting_commit", !.commitTx = None]

PrecheckRejected(b) == [b EXCEPT !.status = "precheck_rejected"]

(* createFinalizeState and ensure_finalize_state: what is there is kept. *)
WithFinalize(b) ==
    IF b.finalize = "none" THEN [b EXCEPT !.finalize = "awaiting_finalize"] ELSE b

(* buildFinalizeRequest: the wallet's own request becomes the offered one. *)
FinalizePrepared(b) ==
    [WithFinalize(b) EXCEPT !.mode = IF @ = "relayer" THEN "manual" ELSE @]

(* The commit callback; it may come without a hash. *)
CommitSubmitted(b, hash) ==
    [FinalizePrepared(b) EXCEPT !.status = "commit_submitted", !.commit = "commit_submitted",
                                !.commitTx = hash, !.ttl = "long"]

(* applyFinalizeCallbackState: a known hash only extends the expiry, any   *)
(* other, and none at all, is taken as confirmed.                          *)
FinalizeReported(b, t) ==
    IF t # None /\ b.finalizeTx = t
    THEN [b EXCEPT !.ttl = "long"]
    ELSE [b EXCEPT !.status = "finalized", !.finalize = "confirmed", !.finalizeTx = t,
                   !.confirmed = TRUE, !.mode = "corepass", !.ttl = "long"]

(* The relayer's hash is known: attemptSessionFinalize and the worker. *)
RelaySubmitted(b, t) ==
    [b EXCEPT !.status = "finalize_submitted", !.finalize = "submitted",
              !.finalizeTx = t, !.mode = "relayer"]

(* _set_finalize_retrying, _set_finalize_expired *)
FinalizeRetrying(b) == [b EXCEPT !.status = "commit_confirmed", !.finalize = "retrying"]
FinalizeExpired(b) == [b EXCEPT !.status = "finalize_expired", !.finalize = "expired"]

(* list_finalize_candidates *)
CandidateStatus == {"commit_submitted", "commit_confirmed", "finalize_submitted"}

(* upsert_session, from a copy: an expired copy of an expired row is       *)
(* inserted and cleaned up again before anybody reads it.                  *)
Stored(s, b) == IF row[s] = None /\ b.ttl = "short" THEN None ELSE b

-----------------------------------------------------------------------------
(* The chain.                                                              *)

(* A commit reverts when one is pending already, or when the supply or the *)
(* wallet's cap no longer allows it; a finalize call needs the window.     *)
MineCommit(s) ==
    /\ tx[s][CommitTx] = "pending"
    /\ \/ Chain!Commit(s) /\ tx' = [tx EXCEPT ![s][CommitTx] = "ok"]
       \/ UNCHANGED phase /\ tx' = [tx EXCEPT ![s][CommitTx] = "reverted"]
    /\ UNCHANGED <<row, handler, worker, calls>>

MineFinalize(s, t) ==
    /\ tx[s][t] = "pending"
    /\ \/ Chain!Finalize(s) /\ tx' = [tx EXCEPT ![s][t] = "ok"]
       \/ /\ phase[s] # "open"
          /\ UNCHANGED phase
          /\ tx' = [tx EXCEPT ![s][t] = "reverted"]
    /\ UNCHANGED <<row, handler, worker, calls>>

FinalizeWindowOpens(s) ==
    /\ phase[s] = "early"
    /\ phase' = [phase EXCEPT ![s] = "open"]
    /\ UNCHANGED <<tx, row, handler, worker, calls>>

FinalizeWindowCloses(s) ==
    /\ WindowCloses
    /\ phase[s] = "open"
    /\ phase' = [phase EXCEPT ![s] = "expired"]
    /\ UNCHANGED <<tx, row, handler, worker, calls>>

(* clearExpiredCommit, called by anybody. *)
CommitCleared(s) ==
    /\ Chain!Clear(s)
    /\ UNCHANGED <<tx, row, handler, worker, calls>>

(* What the finalizer's script may tell its caller: a hash, or a reason    *)
(* ("failed" stands for too_early, no_pending_commit and finalize_failed). *)
RelayAnswer == RelayTxs \cup {"finalize_expired", "failed"}

(* relay_finalize_mint: the script simulates the call and broadcasts it.   *)
(* It may fail at any point, after the broadcast included.                 *)
RelayFinalize(s, answer) ==
    \/ /\ phase[s] = "open"
       /\ \E t \in RelayTxs :
            /\ tx[s][t] = "unsent"
            /\ tx' = [tx EXCEPT ![s][t] = "pending"]
            /\ answer \in {t, "failed"}
    \/ phase[s] = "expired" /\ answer = "finalize_expired" /\ UNCHANGED tx
    \/ answer = "failed" /\ UNCHANGED tx

-----------------------------------------------------------------------------
(* The wallet app and the clock of the session rows.                       *)

SendCommit(s) ==
    /\ row[s] # None /\ row[s].commit # "none"
    /\ tx[s][CommitTx] = "unsent"
    /\ tx' = [tx EXCEPT ![s][CommitTx] = "pending"]
    /\ UNCHANGED <<phase, row, handler, worker, calls>>

(* The app estimates the call first, so it is sent in the open window. *)
SendFinalize(s, t) ==
    /\ row[s] # None /\ row[s].finalize # "none"
    /\ phase[s] = "open"
    /\ tx[s][t] = "unsent"
    /\ tx' = [tx EXCEPT ![s][t] = "pending"]
    /\ UNCHANGED <<phase, row, handler, worker, calls>>

(* cleanup_expired.  35 minutes from a callback outlast the 202 blocks of  *)
(* a commit's life; 20 minutes from the creation need not.                 *)
RowExpires(s) ==
    /\ row[s] # None
    /\ row[s].ttl = "long" => phase[s] \notin {"early", "open"}
    /\ row' = [row EXCEPT ![s] = None]
    /\ UNCHANGED <<phase, tx, handler, worker, calls>>

-----------------------------------------------------------------------------
(* The web server: applyCorePassCallback and attemptSessionFinalize.       *)

NoRequest == [step |-> "idle", session |-> None, copy |-> None]

Serve(h, step, s, b) ==
    handler' = [handler EXCEPT ![h] = [step |-> step, session |-> s, copy |-> b]]

Arrives(h, s, kind, bound) ==
    /\ handler[h].step = "idle"
    /\ row[s] # None
    /\ calls[s][kind] < bound
    /\ calls' = [calls EXCEPT ![s][kind] = @ + 1]
    /\ UNCHANGED <<phase, tx, row, worker>>

(* step "identify": no status is looked at, any session is prechecked. *)
IdentifyCallback(h, s) ==
    /\ Arrives(h, s, "identify", MaxIdentify)
    /\ Serve(h, "precheck", s, row[s])

(* A callback names the transaction it is about, or none. *)
CommitCallback(h, s) ==
    /\ Arrives(h, s, "commit", MaxCommit)
    /\ row[s].commit # "none"
    /\ tx[s][CommitTx] # "unsent"
    /\ \E hash \in {CommitTx, None} : Serve(h, "write", s, CommitSubmitted(row[s], hash))

FinalizeCallback(h, s, t) ==
    /\ Arrives(h, s, "finalize", MaxFinalize)
    /\ row[s].finalize # "none"
    /\ tx[s][t] # "unsent"
    /\ \E hash \in {t, None} : Serve(h, "write", s, FinalizeReported(row[s], hash))

(* attemptSessionFinalize returns early when a hash is known. *)
FinalizeRequest(h, s) ==
    /\ Arrives(h, s, "relay", MaxRelay)
    /\ row[s].finalize # "none"
    /\ row[s].finalizeTx = None
    /\ Serve(h, "relay", s, row[s])

(* runMintPrecheck, then buildCommitRequest.  A missing coreID leaves the  *)
(* record as it was, error apart.                                          *)
PrecheckAnswers(h) ==
    LET s == handler[h].session  b == handler[h].copy IN
    /\ handler[h].step = "precheck"
    /\ \/ /\ phase[s] \in {"none", "expired"}
          /\ Serve(h, "persist", s, CommitRequested(b))
       \/ Serve(h, "write", s, PrecheckRejected(b))
       \/ Serve(h, "write", s, b)
    /\ UNCHANGED <<phase, tx, row, worker, calls>>

(* The catch clause around the precheck also catches a failed write. *)
PersistFails(h) ==
    /\ handler[h].step = "persist"
    /\ Serve(h, "write", handler[h].session, PrecheckRejected(handler[h].copy))
    /\ UNCHANGED <<phase, tx, row, worker, calls>>

RelayAnswers(h) ==
    LET s == handler[h].session  b == handler[h].copy IN
    /\ handler[h].step = "relay"
    /\ \E answer \in RelayAnswer :
        /\ RelayFinalize(s, answer)
        /\ Serve(h, "write", s,
                 [(IF answer \in RelayTxs THEN RelaySubmitted(b, answer) ELSE b)
                    EXCEPT !.ttl = "long"])
    /\ UNCHANGED <<phase, row, worker, calls>>

(* persistSession *)
Write(h) ==
    LET s == handler[h].session IN
    /\ handler[h].step \in {"persist", "write"}
    /\ row' = [row EXCEPT ![s] = Stored(s, handler[h].copy)]
    /\ handler' = [handler EXCEPT ![h] = NoRequest]
    /\ UNCHANGED <<phase, tx, worker, calls>>

(* The web process stops or the backend cannot be reached. *)
RequestLost(h) ==
    /\ handler[h].step # "idle"
    /\ handler' = [handler EXCEPT ![h] = NoRequest]
    /\ UNCHANGED <<phase, tx, row, worker, calls>>

-----------------------------------------------------------------------------
(* The FinalizeWorker: one sweep lists the candidates once and then works  *)
(* through its list, each session on the copy listed at the start.         *)

NoSweep == [step |-> "idle", session |-> None, copy |-> None, listed |-> <<>>, seen |-> "none"]

(* run_once *)
Sweep ==
    LET candidates == {s \in Sessions : row[s] # None /\ row[s].status \in CandidateStatus} IN
    /\ worker.step = "idle"
    /\ candidates # {}
    /\ worker' = [NoSweep EXCEPT !.step = "next",
                                 !.listed = [s \in candidates |-> row[s]]]
    /\ UNCHANGED <<phase, tx, row, handler, calls>>

TakeSession(s) ==
    LET b == WithFinalize(worker.listed[s]) IN
    /\ worker.step = "next"
    /\ s \in DOMAIN worker.listed
    /\ worker' = [worker EXCEPT
            !.session = s,
            !.copy = b,
            !.step = IF b.status = "commit_submitted" THEN "commit" ELSE "wallet"]
    /\ UNCHANGED <<phase, tx, row, handler, calls>>

(* Fault: no receipt yet is taken for a failed transaction. *)
CommitChecked404(b, receipt) ==
    CASE receipt = "ok" -> [b EXCEPT !.status = "commit_confirmed", !.commit = "commit_confirmed"]
      [] OTHER          -> [b EXCEPT !.status = "commit_failed", !.commit = "commit_reverted"]

(* _handle_submitted_commit, on the receipt of the known hash. *)
CommitChecked(b, receipt) ==
    CASE receipt = "ok"       -> [b EXCEPT !.status = "commit_confirmed", !.commit = "commit_confirmed"]
      [] receipt = "reverted" -> [b EXCEPT !.status = "commit_failed", !.commit = "commit_reverted"]
      [] OTHER                -> b

(* Without a hash nothing is looked up and the session waits on. *)
CommitReceipt == IF worker.copy.commitTx = None THEN "unsent"
                 ELSE tx[worker.session][worker.copy.commitTx]

CheckCommit ==
    LET b == CommitChecked(worker.copy, CommitReceipt) IN
    /\ worker.step = "commit"
    /\ worker' = [worker EXCEPT
            !.copy = b,
            !.step = IF b.status = "commit_confirmed" THEN "wallet" ELSE "upsert"]
    /\ UNCHANGED <<phase, tx, row, handler, calls>>

(* What get_wallet_mint_state may see: it reads the block number first and *)
(* the pending commit last, so an existing commit may look younger than    *)
(* it is.                                                                  *)
PhaseRead(p) == CASE p = "open"    -> {"early", "open"}
                  [] p = "expired" -> {"early", "open", "expired"}
                  [] OTHER         -> {p}

ReadWallet ==
    LET b == worker.copy IN
    /\ worker.step = "wallet"
    /\ \E seen \in PhaseRead(phase[worker.session]) :
        worker' = [worker EXCEPT
            !.seen = seen,
            !.step = IF b.confirmed THEN "upsert"
                     ELSE IF b.finalizeTx # None THEN "receipt" ELSE "pending"]
    /\ UNCHANGED <<phase, tx, row, handler, calls>>

WorkerWrites(b) == worker' = [worker EXCEPT !.step = "upsert", !.copy = b, !.seen = "none"]

(* Fault: a commit whose delay has not run yet is given up. *)
RelayVerdictHasty(seen) ==
    CASE seen \in {"early", "expired"} -> "expired" [] seen = "none" -> "retrying" [] OTHER -> "relay"

(* What _handle_pending_finalize makes of the wallet's state. *)
RelayVerdict(seen) ==
    CASE seen = "expired" -> "expired" [] seen \in {"none", "early"} -> "retrying" [] OTHER -> "relay"

Relay ==
    LET b == worker.copy IN
    \E answer \in RelayAnswer :
        /\ RelayFinalize(worker.session, answer)
        /\ WorkerWrites(CASE answer = "finalize_expired" -> FinalizeExpired(b)
                          [] answer \in RelayTxs         -> RelaySubmitted(b, answer)
                          [] OTHER                       -> FinalizeRetrying(b))

HandlePendingFinalize ==
    LET verdict == RelayVerdict(worker.seen)  b == worker.copy IN
    /\ worker.step = "pending"
    /\ \/ verdict = "expired" /\ WorkerWrites(FinalizeExpired(b)) /\ UNCHANGED tx
       \/ verdict = "retrying" /\ WorkerWrites(FinalizeRetrying(b)) /\ UNCHANGED tx
       \/ verdict = "relay" /\ Relay
    /\ UNCHANGED <<phase, row, handler, calls>>

(* Fault: the transaction is confirmed as soon as it was sent. *)
FinalizeCheckedBlind(b, receipt, seen) ==
    [b EXCEPT !.status = "finalized", !.finalize = "confirmed", !.confirmed = TRUE, !.mode = "relayer"]

(* Fault: the hash of a reverted transaction is kept. *)
FinalizeCheckedKeepsHash(b, receipt, seen) ==
    CASE receipt = "pending"  -> [b EXCEPT !.status = "finalize_submitted"]
      [] receipt = "reverted" ->
            IF seen = "expired" THEN FinalizeExpired(b) ELSE FinalizeRetrying(b)
      [] OTHER                ->
            [b EXCEPT !.status = "finalized", !.finalize = "confirmed",
                      !.confirmed = TRUE, !.mode = "relayer"]

(* _handle_submitted_finalize, on the receipt of the known hash. *)
FinalizeChecked(b, receipt, seen) ==
    CASE receipt = "pending"  -> [b EXCEPT !.status = "finalize_submitted"]
      [] receipt = "reverted" ->
            IF seen = "expired" THEN FinalizeExpired([b EXCEPT !.finalizeTx = None])
                                ELSE FinalizeRetrying([b EXCEPT !.finalizeTx = None])
      [] OTHER                ->
            [b EXCEPT !.status = "finalized", !.finalize = "confirmed",
                      !.confirmed = TRUE, !.mode = "relayer"]

(* A reverted hash is cleared before the attempt is put on record, and     *)
(* that may raise: the copy still says submitted, of no transaction.       *)
HashCleared(b) == [b EXCEPT !.finalizeTx = None]

HandleSubmittedFinalize ==
    LET b == worker.copy  receipt == tx[worker.session][b.finalizeTx] IN
    /\ worker.step = "receipt"
    /\ \/ WorkerWrites(FinalizeChecked(b, receipt, worker.seen))
       \/ receipt = "reverted" /\ WorkerWrites(HashCleared(b))
    /\ UNCHANGED <<phase, tx, row, handler, calls>>

(* An error of the node, or of the store before anything was changed,      *)
(* leaves the sweep of this session: the copy is written as it is.         *)
SessionFails ==
    /\ worker.step \in {"commit", "wallet", "receipt"}
    /\ WorkerWrites(worker.copy)
    /\ UNCHANGED <<phase, tx, row, handler, calls>>

(* upsert_session when something changed; a copy that looks unchanged here *)
(* may still differ in what is left out.  The store may refuse the record, *)
(* and refuse it again in the error path: the sweep goes on without it.    *)
Upsert ==
    LET s == worker.session  rest == DOMAIN worker.listed \ {s} IN
    /\ worker.step = "upsert"
    /\ \/ row' = [row EXCEPT ![s] = Stored(s, worker.copy)]
       \/ UNCHANGED row
    /\ worker' = IF rest = {} THEN NoSweep
                 ELSE [NoSweep EXCEPT !.step = "next",
                                      !.listed = [q \in rest |-> worker.listed[q]]]
    /\ UNCHANGED <<phase, tx, handler, calls>>

(* The backend restarts: the sweep is gone, the rows stay. *)
BackendRestarts ==
    /\ worker.step # "idle"
    /\ worker' = NoSweep
    /\ UNCHANGED <<phase, tx, row, handler, calls>>

-----------------------------------------------------------------------------
Init ==
    /\ Chain!LifeInit
    /\ tx = [s \in Sessions |-> [t \in Txs |-> "unsent"]]
    /\ row = [s \in Sessions |-> NewSession]
    /\ handler = [h \in Handlers |-> NoRequest]
    /\ worker = NoSweep
    /\ calls = [s \in Sessions |-> [k \in {"identify", "commit", "finalize", "relay"} |-> 0]]

WorkerNext ==
    \/ Sweep \/ (\E s \in Sessions : TakeSession(s))
    \/ CheckCommit \/ ReadWallet \/ HandlePendingFinalize \/ HandleSubmittedFinalize
    \/ SessionFails \/ Upsert \/ BackendRestarts

WebNext ==
    \E h \in Handlers :
        \/ \E s \in Sessions :
            \/ IdentifyCallback(h, s)
            \/ CommitCallback(h, s)
            \/ \E t \in ManualTxs : FinalizeCallback(h, s, t)
            \/ FinalizeRequest(h, s)
        \/ PrecheckAnswers(h)
        \/ PersistFails(h)
        \/ RelayAnswers(h)
        \/ Write(h)
        \/ RequestLost(h)

WorldNext ==
    \E s \in Sessions :
        \/ MineCommit(s)
        \/ \E t \in FinalizeTxs : MineFinalize(s, t)
        \/ FinalizeWindowOpens(s)
        \/ FinalizeWindowCloses(s)
        \/ CommitCleared(s)
        \/ SendCommit(s)
        \/ \E t \in ManualTxs : SendFinalize(s, t)
        \/ RowExpires(s)

Next == WorkerNext \/ WebNext \/ WorldNext

Spec == Init /\ [][Next]_vars

(* A changed copy is stored. *)
UpsertSucceeds(s) ==
    /\ Upsert /\ worker.session = s
    /\ row' = [row EXCEPT ![s] = Stored(s, worker.copy)] \/ worker.copy = worker.listed[s]

(* The worker sweeps for ever; the node, the relayer and the store fail    *)
(* only for a time, and restarts do not hit the same step of every sweep.  *)
(* Nobody owes a request of the wallet or of the web.                      *)
Fairness ==
    /\ WF_vars(Sweep)
    /\ \A s \in Sessions :
        /\ WF_vars(MineCommit(s))
        /\ WF_vars(FinalizeWindowOpens(s))
        /\ \A t \in FinalizeTxs : WF_vars(MineFinalize(s, t))
        /\ SF_vars(TakeSession(s))
        /\ SF_vars(CheckCommit /\ worker.session = s)
        /\ SF_vars(ReadWallet /\ worker.session = s /\ worker'.seen = phase[s])
        /\ WF_vars(HandlePendingFinalize)
        /\ SF_vars(HandlePendingFinalize /\ worker.session = s /\ tx' # tx)
        /\ SF_vars(HandleSubmittedFinalize /\ worker.session = s)
        /\ SF_vars(UpsertSucceeds(s))

FairSpec == Spec /\ Fairness

-----------------------------------------------------------------------------
Blobs ==
    [status : CandidateStatus \cup {"awaiting_identity", "awaiting_commit",
                "precheck_rejected", "commit_failed", "finalized", "finalize_expired"},
     ttl : {"short", "long"},
     commit : {"none", "awaiting_commit", "commit_submitted", "commit_confirmed",
               "commit_reverted"},
     commitTx : {CommitTx, None},
     finalize : {"none", "awaiting_finalize", "submitted", "retrying", "expired", "confirmed"},
     finalizeTx : FinalizeTxs \cup {None},
     confirmed : BOOLEAN,
     mode : {"manual", "relayer", "corepass"}]

ASSUME NoneIsNoRecord == None \notin Blobs

TypeOK ==
    /\ phase \in [Sessions -> Chain!Phases]
    /\ tx \in [Sessions -> [Txs -> {"unsent", "pending", "ok", "reverted"}]]
    /\ \A s \in Sessions : row[s] # None => row[s] \in Blobs
    /\ \A h \in Handlers : \/ handler[h] = NoRequest
                          \/ /\ handler[h].step \in {"precheck", "persist", "relay", "write"}
                             /\ handler[h].session \in Sessions
                             /\ handler[h].copy \in Blobs
    /\ \/ worker = NoSweep
       \/ worker.step \in {"next", "commit", "wallet", "pending", "receipt", "upsert"}
    /\ worker.step \notin {"idle", "next"} => /\ worker.copy \in Blobs
                                            /\ worker.session \in DOMAIN worker.listed
    /\ DOMAIN worker.listed \subseteq Sessions
    /\ \A s \in DOMAIN worker.listed : worker.listed[s] \in Blobs

(* Every version of session s that exists: the row and the private copies  *)
(* that may yet be written over it.                                        *)
Versions(s) ==
    (IF row[s] = None THEN {} ELSE {row[s]})
    \cup {handler[h].copy : h \in {k \in Handlers : handler[k].session = s}}
    \cup (IF worker.session = s THEN {worker.copy} ELSE {})
    \cup (IF s \in DOMAIN worker.listed THEN {worker.listed[s]} ELSE {})

(* The three writers keep the parts of a record in step with each other,   *)
(* in the copies an error left half processed too: a hash is there only if *)
(* its stage has one; a finalize submitted without a hash is one whose     *)
(* transaction reverted, so that relaying it again is no second one; and   *)
(* only CorePass confirms without naming a transaction.                    *)
Coherent(b, receipts) ==
    /\ b.commitTx # None => b.commit \notin {"none", "awaiting_commit"}
    /\ b.commit \in {"commit_confirmed", "commit_reverted"} => b.commitTx # None
    /\ b.finalizeTx # None => b.finalize \in {"submitted", "confirmed"}
    /\ b.finalize = "submitted" =>
            b.finalizeTx \in RelayTxs \/ \E t \in RelayTxs : receipts[t] = "reverted"
    /\ b.finalize = "confirmed" => b.confirmed
    /\ b.confirmed => /\ b.finalize \in {"submitted", "confirmed"}
                      /\ b.finalizeTx # None \/ b.mode = "corepass"
    /\ b.status \in CandidateStatus => b.finalize # "none"

RecordsCoherent == \A s \in Sessions : \A b \in Versions(s) : Coherent(b, tx[s])

Delivered(s) == \E t \in FinalizeTxs : tx[s][t] = "ok"

(* What a record says of the chain.  A finalize that CorePass reported     *)
(* (mode corepass) is not looked up, so nothing is promised of it.         *)
Verdict(s, b) ==
    /\ \/ b.commit = "commit_confirmed"
       \/ b.status \in {"commit_confirmed", "finalize_submitted"}
        => tx[s][CommitTx] = "ok"
    /\ b.status = "commit_failed" => tx[s][CommitTx] = "reverted"
    /\ b.finalize = "confirmed" /\ b.mode = "relayer" => Delivered(s)
    /\ b.status = "finalize_expired" =>
            phase[s] \in {"none", "expired"} /\ tx[s][CommitTx] = "ok" /\ ~Delivered(s)

(* However stale the copies are that the worker and the handlers write     *)
(* over each other, no record claims of the chain what is not so: too      *)
(* early is not taken for expired, expired is never said of a cat that was *)
(* or can still be delivered, nor confirmed of one that was not.           *)
VerdictsHold == \A s \in Sessions : \A b \in Versions(s) : Verdict(s, b)

OnTheList(s) ==
    row[s] # None /\ (row[s].status \in CandidateStatus \/ row[s].confirmed)

(* While the commit can be finalized, a session the worker takes care of   *)
(* stays in its care until the finalize is confirmed: restarts, lost       *)
(* requests, RPC errors and stale writes included, and the expiry of rows  *)
(* that no callback extended.                                              *)
StaysOnTheList ==
    [][\A s \in Sessions :
        OnTheList(s) /\ phase'[s] \in {"early", "open"} => OnTheList(s)']_vars

(* A finalized session stays finalized as long as its row is there.        *)
FinalizedStays ==
    [][\A s \in Sessions :
        row[s] # None /\ row'[s] # None /\ row[s].status = "finalized"
            => row'[s].status = "finalized"]_vars

(* The worker gets every cat delivered whose commit it knows of, by hash,  *)
(* and whose window stays open, whoever else sends finalize transactions   *)
(* meanwhile.                                                              *)
SubmittedIsDelivered ==
    \A s \in Sessions :
        (/\ tx[s][CommitTx] = "ok" /\ row[s] # None
         /\ row[s].status \in CandidateStatus /\ row[s].commitTx # None)
            ~> Delivered(s)
=============================================================================
