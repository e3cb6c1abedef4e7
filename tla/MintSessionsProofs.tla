------------------------- MODULE MintSessionsProofs -------------------------
(***************************************************************************)
(* No record says of the chain what is not so, and the three writers keep  *)
(* its parts in step: for any number of sessions, requests in progress and *)
(* finalize transactions.                                                  *)
(*                                                                         *)
(* Every version of a session, the row and every private copy, is Good for *)
(* the session's transactions t and the phase p of its commit.  What the   *)
(* chain does keeps a version Good however old it has become, and every    *)
(* writer makes a Good version of a Good one.                              *)
(*                                                                         *)
(* The last part shows that a session identified once stays in the         *)
(* worker's care.                                                          *)
(***************************************************************************)
EXTENDS MintSessions, TLAPS

Receipts == {"unsent", "pending", "ok", "reverted"}

DeliveredBy(t) == \E x \in FinalizeTxs : t[x] = "ok"

(* Verdict, of a session's transactions and phase. *)
Tells(b, t, p) ==
    /\ b.commit = "commit_confirmed" \/ b.status \in {"commit_confirmed", "finalize_submitted"}
          => t[CommitTx] = "ok"
    /\ b.status = "commit_failed" => t[CommitTx] = "reverted"
    /\ b.finalize = "confirmed" /\ b.mode = "relayer" => DeliveredBy(t)
    /\ b.status = "finalize_expired" => p \in {"none", "expired"} /\ t[CommitTx] = "ok" /\ ~DeliveredBy(t)

Good(b, t, p) ==
    /\ b \in Blobs /\ Coherent(b, t) /\ Tells(b, t, p)
    /\ b.finalizeTx # None => t[b.finalizeTx] # "unsent"

(* A commit is pending in the contract after it was mined and before it is delivered. *)
ChainOk(t, p) ==
    /\ t \in [Txs -> Receipts] /\ p \in Chain!Phases
    /\ p # "none" => t[CommitTx] = "ok" /\ ~DeliveredBy(t)
    /\ DeliveredBy(t) => t[CommitTx] = "ok"

HandlerOk(r, T, P) ==
    r # NoRequest =>
        /\ r.step \in {"precheck", "persist", "relay", "write"} /\ r.session \in Sessions
        /\ Good(r.copy, T[r.session], P[r.session])
        /\ r.step = "relay" => r.copy.finalizeTx = None

(* What the worker knows at each of its steps. *)
StepOk(w, t, p) ==
    /\ Good(w.copy, t, p)
    /\ w.step = "commit" => w.copy.status = "commit_submitted"
    /\ w.step \in {"wallet", "pending", "receipt"} => w.copy.status \in {"commit_confirmed", "finalize_submitted"}
    /\ w.step \in {"pending", "receipt"} => ~w.copy.confirmed
    /\ w.step = "pending" => w.copy.finalizeTx = None
    /\ w.step = "receipt" => w.copy.finalizeTx # None
    /\ w.step \in {"pending", "receipt"} /\ w.seen = "expired" =>
          p \in {"none", "expired"} /\ t[CommitTx] = "ok" /\ ~DeliveredBy(t)

ListOk(l, T, P) ==
    /\ DOMAIN l \subseteq Sessions
    /\ \A s \in DOMAIN l : Good(l[s], T[s], P[s]) /\ l[s].status \in CandidateStatus

SweepOk(w, T, P) ==
    w # NoSweep =>
        /\ w = [step |-> w.step, session |-> w.session, copy |-> w.copy, listed |-> w.listed, seen |-> w.seen]
        /\ w.step \in {"next", "commit", "wallet", "pending", "receipt", "upsert"}
        /\ ListOk(w.listed, T, P)
        /\ w.step = "next" => w.session = None
        /\ w.step # "next" => w.session \in DOMAIN w.listed /\ StepOk(w, T[w.session], P[w.session])

RowsOk(R, T, P) == \A s \in Sessions : R[s] # None => Good(R[s], T[s], P[s])

SessionsInv ==
    /\ phase = [s \in Sessions |-> phase[s]] /\ tx = [s \in Sessions |-> tx[s]]
    /\ row = [s \in Sessions |-> row[s]] /\ handler = [h \in Handlers |-> handler[h]]
    /\ \A s \in Sessions : ChainOk(tx[s], phase[s])
    /\ RowsOk(row, tx, phase)
    /\ \A h \in Handlers : HandlerOk(handler[h], tx, phase)
    /\ SweepOk(worker, tx, phase)

-----------------------------------------------------------------------------
(* The chain moves on *)

(* What a version of a session may count on: settled receipts stay, sent transactions *)
(* stay sent, and after the window nothing is delivered any more.                     *)
Moves(t, p, t2, p2) ==
    /\ t[CommitTx] \in {"ok", "reverted"} => t2[CommitTx] = t[CommitTx]
    /\ \A x \in FinalizeTxs : t[x] # "unsent" => t2[x] # "unsent"
    /\ \A x \in RelayTxs : t[x] = "reverted" => t2[x] = "reverted"
    /\ DeliveredBy(t) => DeliveredBy(t2)
    /\ p \in {"none", "expired"} /\ t[CommitTx] = "ok" /\ ~DeliveredBy(t) =>
          p2 \in {"none", "expired"} /\ ~DeliveredBy(t2)

AllMove(T, P, T2, P2) == \A s \in Sessions : Moves(T[s], P[s], T2[s], P2[s])

(* A version stays Good. *)
LEMMA GoodStays ==
    ASSUME NEW b, NEW t, NEW p, NEW t2, NEW p2, Good(b, t, p), Moves(t, p, t2, p2)
    PROVE  Good(b, t2, p2)
<1>1. Tells(b, t2, p2)
  BY DEF Good, Tells, Moves
<1>2. b.finalizeTx # None => b.finalizeTx \in FinalizeTxs
  BY DEF Good, Blobs
<1>3. b.finalizeTx # None => t2[b.finalizeTx] # "unsent"
  BY <1>2 DEF Good, Moves
<1>4. Coherent(b, t2)
  BY DEF Good, Coherent, Moves
<1> QED
  BY <1>1, <1>3, <1>4 DEF Good

LEMMA RowsStay ==
    ASSUME NEW R, NEW T, NEW P, NEW T2, NEW P2, RowsOk(R, T, P), AllMove(T, P, T2, P2)
    PROVE  RowsOk(R, T2, P2)
BY GoodStays DEF RowsOk, AllMove

LEMMA HandlerStays ==
    ASSUME NEW r, NEW T, NEW P, NEW T2, NEW P2, HandlerOk(r, T, P), AllMove(T, P, T2, P2)
    PROVE  HandlerOk(r, T2, P2)
BY GoodStays DEF HandlerOk, AllMove

LEMMA ListStays ==
    ASSUME NEW l, NEW T, NEW P, NEW T2, NEW P2, ListOk(l, T, P), AllMove(T, P, T2, P2)
    PROVE  ListOk(l, T2, P2)
BY GoodStays DEF ListOk, AllMove

LEMMA StepStays ==
    ASSUME NEW w, NEW t, NEW p, NEW t2, NEW p2, StepOk(w, t, p), Moves(t, p, t2, p2)
    PROVE  StepOk(w, t2, p2)
<1>1. Good(w.copy, t2, p2)
  BY GoodStays DEF StepOk
<1>2. p \in {"none", "expired"} /\ t[CommitTx] = "ok" /\ ~DeliveredBy(t) =>
         p2 \in {"none", "expired"} /\ t2[CommitTx] = "ok" /\ ~DeliveredBy(t2)
  BY DEF Moves
<1> QED
  BY <1>1, <1>2 DEF StepOk

LEMMA SweepStays ==
    ASSUME NEW w, NEW T, NEW P, NEW T2, NEW P2, SweepOk(w, T, P), AllMove(T, P, T2, P2)
    PROVE  SweepOk(w, T2, P2)
<1> SUFFICES ASSUME w # NoSweep
             PROVE  SweepOk(w, T2, P2)
  BY DEF SweepOk
<1>1. ListOk(w.listed, T2, P2)
  BY ListStays DEF SweepOk
<1>2. w.step # "next" => StepOk(w, T2[w.session], P2[w.session])
  <2> SUFFICES ASSUME w.step # "next"
               PROVE  StepOk(w, T2[w.session], P2[w.session])
    OBVIOUS
  <2>1. w.session \in Sessions /\ StepOk(w, T[w.session], P[w.session])
    BY DEF SweepOk, ListOk
  <2> QED
    BY <2>1, StepStays DEF AllMove
<1> QED
  BY <1>1, <1>2 DEF SweepOk

LEMMA TxNames ==
    /\ CommitTx \in Txs /\ CommitTx \notin FinalizeTxs /\ Txs = {CommitTx} \cup FinalizeTxs
    /\ None \notin Txs /\ None \notin Sessions /\ RelayTxs \subseteq FinalizeTxs /\ ManualTxs \subseteq FinalizeTxs
    /\ "finalize_expired" \notin RelayTxs /\ "failed" \notin RelayTxs
BY MintSessionsAssumption DEF Txs, FinalizeTxs

(* A transaction is sent or fails; the commit stands as it stood. *)
LEMMA TxMoves ==
    ASSUME NEW t, NEW p, ChainOk(t, p), NEW x \in Txs, NEW v,
           \/ t[x] = "unsent" /\ v = "pending"
           \/ t[x] = "pending" /\ v = "reverted"
    PROVE  ChainOk([t EXCEPT ![x] = v], p) /\ Moves(t, p, [t EXCEPT ![x] = v], p)
<1> DEFINE t2 == [t EXCEPT ![x] = v]
<1>1. t2 \in [Txs -> Receipts] /\ t2[x] = v /\ \A y \in Txs \ {x} : t2[y] = t[y]
  BY DEF ChainOk, Receipts
<1> HIDE DEF t2
<1>2. DeliveredBy(t2) <=> DeliveredBy(t)
  BY <1>1, TxNames DEF DeliveredBy
<1>3. t[CommitTx] \in {"ok", "reverted"} => t2[CommitTx] = t[CommitTx]
  BY <1>1, TxNames
<1>4. \A y \in FinalizeTxs : t[y] # "unsent" => t2[y] # "unsent"
  BY <1>1, TxNames
<1>5. \A y \in RelayTxs : t[y] = "reverted" => t2[y] = "reverted"
  BY <1>1, TxNames
<1>6. ChainOk(t2, p)
  BY <1>1, <1>2, <1>3 DEF ChainOk
<1>7. Moves(t, p, t2, p)
  BY <1>2, <1>3, <1>4, <1>5 DEF Moves
<1> QED
  BY <1>6, <1>7 DEF t2

(* commitMint goes through: once, since afterwards its transaction is settled. *)
LEMMA CommitMoves ==
    ASSUME NEW t, NEW p, ChainOk(t, p), t[CommitTx] = "pending", p \in {"none", "expired"}
    PROVE  /\ ChainOk([t EXCEPT ![CommitTx] = "ok"], "early")
           /\ Moves(t, p, [t EXCEPT ![CommitTx] = "ok"], "early")
<1> DEFINE t2 == [t EXCEPT ![CommitTx] = "ok"]
<1>1. t2 \in [Txs -> Receipts] /\ t2[CommitTx] = "ok" /\ \A y \in FinalizeTxs : t2[y] = t[y]
  BY TxNames DEF ChainOk, Receipts
<1> HIDE DEF t2
<1>2. ~DeliveredBy(t) /\ ~DeliveredBy(t2)
  BY <1>1 DEF ChainOk, DeliveredBy
<1>3. ChainOk(t2, "early") /\ Moves(t, p, t2, "early")
  BY <1>1, <1>2, TxNames DEF ChainOk, Moves, Chain!Phases
<1> QED
  BY <1>3 DEF t2

(* finalizeMint goes through. *)
LEMMA FinalizeMoves ==
    ASSUME NEW t, NEW p, ChainOk(t, p), NEW x \in FinalizeTxs, t[x] = "pending", p = "open"
    PROVE  ChainOk([t EXCEPT ![x] = "ok"], "none") /\ Moves(t, p, [t EXCEPT ![x] = "ok"], "none")
<1> DEFINE t2 == [t EXCEPT ![x] = "ok"]
<1>1. t2 \in [Txs -> Receipts] /\ t2[x] = "ok" /\ \A y \in Txs \ {x} : t2[y] = t[y]
  BY TxNames DEF ChainOk, Receipts
<1> HIDE DEF t2
<1>2. DeliveredBy(t2) /\ t2[CommitTx] = t[CommitTx] /\ t[CommitTx] = "ok"
  BY <1>1, TxNames DEF ChainOk, DeliveredBy
<1>3. \A y \in FinalizeTxs : t[y] # "unsent" => t2[y] # "unsent"
  BY <1>1, TxNames
<1>4. \A y \in RelayTxs : t[y] = "reverted" => t2[y] = "reverted"
  BY <1>1, TxNames
<1>5. ChainOk(t2, "none") /\ Moves(t, p, t2, "none")
  BY <1>1, <1>2, <1>3, <1>4 DEF ChainOk, Moves, Chain!Phases
<1> QED
  BY <1>5 DEF t2

(* Time passes for a commit, or it is cleared. *)
LEMMA PhaseMoves ==
    ASSUME NEW t, NEW p, ChainOk(t, p), NEW p2,
           <<p, p2>> \in {<<"early", "open">>, <<"open", "expired">>, <<"expired", "none">>}
    PROVE  ChainOk(t, p2) /\ Moves(t, p, t, p2)
BY DEF ChainOk, Moves, Chain!Phases

LEMMA NothingMoves == ASSUME NEW t, NEW p PROVE Moves(t, p, t, p)
BY DEF Moves

ChainStep ==
    /\ phase' = [s \in Sessions |-> phase'[s]] /\ tx' = [s \in Sessions |-> tx'[s]]
    /\ \A s \in Sessions : ChainOk(tx'[s], phase'[s])
    /\ AllMove(tx, phase, tx', phase')

(* One session's chain state changes. *)
LEMMA OneSessionMoves ==
    ASSUME SessionsInv, NEW s \in Sessions, NEW t2, NEW p2,
           tx' = [tx EXCEPT ![s] = t2], phase' = [phase EXCEPT ![s] = p2],
           ChainOk(t2, p2), Moves(tx[s], phase[s], t2, p2)
    PROVE  ChainStep
<1>1. /\ phase' = [q \in Sessions |-> phase'[q]] /\ tx' = [q \in Sessions |-> tx'[q]]
      /\ tx'[s] = t2 /\ phase'[s] = p2
      /\ \A q \in Sessions \ {s} : tx'[q] = tx[q] /\ phase'[q] = phase[q]
  BY DEF SessionsInv
<1>2. \A q \in Sessions : ChainOk(tx'[q], phase'[q])
  BY <1>1 DEF SessionsInv
<1>3. \A q \in Sessions : Moves(tx[q], phase[q], tx'[q], phase'[q])
  BY <1>1, NothingMoves
<1> QED
  BY <1>1, <1>2, <1>3 DEF ChainStep, AllMove

LEMMA ChainRests ==
    ASSUME SessionsInv, tx' = tx, phase' = phase
    PROVE  ChainStep
BY NothingMoves DEF SessionsInv, ChainStep, AllMove

LEMMA OnlyTxMoves ==
    ASSUME SessionsInv, NEW s \in Sessions, NEW x \in Txs, NEW v, phase' = phase,
           tx' = [tx EXCEPT ![s][x] = v],
           \/ tx[s][x] = "unsent" /\ v = "pending"
           \/ tx[s][x] = "pending" /\ v = "reverted"
    PROVE  ChainStep
<1>1. ChainOk(tx[s], phase[s])
  BY DEF SessionsInv
<1>2. ChainOk([tx[s] EXCEPT ![x] = v], phase[s]) /\ Moves(tx[s], phase[s], [tx[s] EXCEPT ![x] = v], phase[s])
  BY <1>1, TxMoves
<1>3. tx' = [tx EXCEPT ![s] = [tx[s] EXCEPT ![x] = v]] /\ phase' = [phase EXCEPT ![s] = phase[s]]
  BY DEF SessionsInv
<1> QED
  BY <1>2, <1>3, OneSessionMoves

LEMMA OnlyPhaseMoves ==
    ASSUME SessionsInv, NEW s \in Sessions, NEW p2, tx' = tx, phase' = [phase EXCEPT ![s] = p2],
           <<phase[s], p2>> \in {<<"early", "open">>, <<"open", "expired">>, <<"expired", "none">>}
    PROVE  ChainStep
<1>1. ChainOk(tx[s], p2) /\ Moves(tx[s], phase[s], tx[s], p2)
  BY PhaseMoves DEF SessionsInv
<1>2. tx' = [tx EXCEPT ![s] = tx[s]]
  BY DEF SessionsInv
<1> QED
  BY <1>1, <1>2, OneSessionMoves

LEMMA MineCommitMoves ==
    ASSUME SessionsInv, NEW s \in Sessions, MineCommit(s)
    PROVE  ChainStep
<1>1. ChainOk(tx[s], phase[s]) /\ tx[s][CommitTx] = "pending"
  BY DEF SessionsInv, MineCommit
<1>2. CASE Chain!Commit(s) /\ tx' = [tx EXCEPT ![s][CommitTx] = "ok"]
  <2>1. phase[s] \in {"none", "expired"} /\ phase' = [phase EXCEPT ![s] = "early"]
    BY <1>2 DEF Chain!Commit
  <2>2. tx' = [tx EXCEPT ![s] = [tx[s] EXCEPT ![CommitTx] = "ok"]]
    BY <1>2
  <2> QED
    BY <1>1, <2>1, <2>2, CommitMoves, OneSessionMoves
<1>3. CASE UNCHANGED phase /\ tx' = [tx EXCEPT ![s][CommitTx] = "reverted"]
  BY <1>1, <1>3, TxNames, OnlyTxMoves
<1> QED
  BY <1>2, <1>3 DEF MineCommit

LEMMA MineFinalizeMoves ==
    ASSUME SessionsInv, NEW s \in Sessions, NEW x \in FinalizeTxs, MineFinalize(s, x)
    PROVE  ChainStep
<1>1. ChainOk(tx[s], phase[s]) /\ tx[s][x] = "pending"
  BY DEF SessionsInv, MineFinalize
<1>2. CASE Chain!Finalize(s) /\ tx' = [tx EXCEPT ![s][x] = "ok"]
  <2>1. phase[s] = "open" /\ phase' = [phase EXCEPT ![s] = "none"]
    BY <1>2 DEF Chain!Finalize
  <2>2. tx' = [tx EXCEPT ![s] = [tx[s] EXCEPT ![x] = "ok"]]
    BY <1>2
  <2> QED
    BY <1>1, <2>1, <2>2, FinalizeMoves, OneSessionMoves
<1>3. CASE UNCHANGED phase /\ tx' = [tx EXCEPT ![s][x] = "reverted"]
  BY <1>1, <1>3, TxNames, OnlyTxMoves
<1> QED
  BY <1>2, <1>3 DEF MineFinalize

(* relay_finalize_mint, and what its answers tell. *)
LEMMA RelayMoves ==
    ASSUME SessionsInv, NEW s \in Sessions, NEW answer \in RelayAnswer, RelayFinalize(s, answer), phase' = phase
    PROVE  /\ ChainStep
           /\ answer \in RelayTxs => tx'[s][CommitTx] = "ok" /\ tx'[s][answer] # "unsent"
           /\ answer = "finalize_expired" =>
                 phase'[s] = "expired" /\ tx'[s][CommitTx] = "ok" /\ ~DeliveredBy(tx'[s])
<1>1. ChainOk(tx[s], phase[s]) /\ tx = [q \in Sessions |-> tx[q]]
  BY DEF SessionsInv
<1>2. ASSUME phase[s] = "open", NEW x \in RelayTxs, tx[s][x] = "unsent",
             tx' = [tx EXCEPT ![s][x] = "pending"], answer \in {x, "failed"}
      PROVE  /\ ChainStep
             /\ answer \in RelayTxs => tx'[s][CommitTx] = "ok" /\ tx'[s][answer] # "unsent"
             /\ answer # "finalize_expired"
  <2>1. ChainStep
    BY <1>2, TxNames, OnlyTxMoves
  <2>2. tx'[s] = [tx[s] EXCEPT ![x] = "pending"] /\ tx[s][CommitTx] = "ok"
    BY <1>1, <1>2 DEF ChainOk
  <2>3. tx'[s][CommitTx] = "ok" /\ tx'[s][x] = "pending"
    BY <1>1, <2>2, TxNames DEF ChainOk
  <2> QED
    BY <1>2, <2>1, <2>3, TxNames
<1>3. CASE phase[s] = "expired" /\ answer = "finalize_expired" /\ UNCHANGED tx
  BY <1>1, <1>3, ChainRests, TxNames DEF ChainOk
<1>4. CASE answer = "failed" /\ UNCHANGED tx
  BY <1>4, ChainRests, TxNames
<1> QED
  BY <1>2, <1>3, <1>4 DEF RelayFinalize

-----------------------------------------------------------------------------
(* The writers *)

LEMMA NewSessionIsGood ==
    ASSUME NEW t, NEW p
    PROVE  Good(NewSession, t, p)
BY TxNames DEF Good, Blobs, Coherent, Tells, NewSession, CandidateStatus

LEMMA LongerIsGood ==
    ASSUME NEW b, NEW t, NEW p, Good(b, t, p)
    PROVE  Good([b EXCEPT !.ttl = "long"], t, p)
BY DEF Good, Blobs, Coherent, Tells

LEMMA RequestedIsGood ==
    ASSUME NEW b, NEW t, NEW p, Good(b, t, p)
    PROVE  Good(CommitRequested(b), t, p)
<1> DEFINE n == CommitRequested(b)
<1>1. n \in Blobs
  BY DEF Good, Blobs, CommitRequested, CandidateStatus
<1>2. /\ n.status = "awaiting_commit" /\ n.ttl = b.ttl /\ n.commit = "awaiting_commit" /\ n.commitTx = None
      /\ n.finalize = b.finalize /\ n.finalizeTx = b.finalizeTx /\ n.confirmed = b.confirmed /\ n.mode = b.mode
  BY DEF Good, Blobs, CommitRequested
<1> HIDE DEF n
<1>3. Coherent(n, t)
  BY <1>2, TxNames DEF Good, Blobs, Coherent, CandidateStatus
<1>4. Tells(n, t, p)
  BY <1>2 DEF Good, Tells
<1> QED
  BY <1>1, <1>2, <1>3, <1>4 DEF Good, n

LEMMA RejectedIsGood ==
    ASSUME NEW b, NEW t, NEW p, Good(b, t, p)
    PROVE  Good(PrecheckRejected(b), t, p)
BY DEF Good, Blobs, Coherent, Tells, PrecheckRejected, CandidateStatus

LEMMA WithFinalizeIsGood ==
    ASSUME NEW b, NEW t, NEW p, Good(b, t, p)
    PROVE  Good(WithFinalize(b), t, p) /\ WithFinalize(b).finalize # "none"
<1>1. CASE b.finalize = "none"
  BY <1>1 DEF Good, Blobs, Coherent, Tells, WithFinalize
<1>2. CASE b.finalize # "none"
  BY <1>2 DEF WithFinalize
<1> QED
  BY <1>1, <1>2

LEMMA SubmittedIsGood ==
    ASSUME NEW b, NEW t, NEW p, Good(b, t, p), NEW hash \in {CommitTx, None}
    PROVE  Good(CommitSubmitted(b, hash), t, p)
<1> DEFINE w == WithFinalize(b)
<1>1. Good(w, t, p) /\ w.finalize # "none"
  BY WithFinalizeIsGood
<1> HIDE DEF w
<1> DEFINE m == IF w.mode = "relayer" THEN "manual" ELSE w.mode
           f == [w EXCEPT !.mode = m]
<1>2. FinalizePrepared(b) = f
  BY DEF FinalizePrepared, w
<1>3. m \in {"manual", "corepass"} /\ m # "relayer" /\ (w.mode = "corepass" => m = "corepass")
  BY <1>1 DEF Good, Blobs
<1> HIDE DEF m
<1>4. CommitSubmitted(b, hash) = [f EXCEPT !.status = "commit_submitted", !.commit = "commit_submitted",
                                     !.commitTx = hash, !.ttl = "long"]
  BY <1>2 DEF CommitSubmitted
<1> DEFINE n == [f EXCEPT !.status = "commit_submitted", !.commit = "commit_submitted",
                          !.commitTx = hash, !.ttl = "long"]
<1>5. n \in Blobs
  <2>1. f \in Blobs
    BY <1>1, <1>3 DEF Good, Blobs
  <2> HIDE DEF f
  <2> QED
    BY <2>1 DEF Blobs, CandidateStatus
<1>6. /\ n.status = "commit_submitted" /\ n.commit = "commit_submitted" /\ n.commitTx = hash
      /\ n.finalize = w.finalize /\ n.finalizeTx = w.finalizeTx /\ n.confirmed = w.confirmed /\ n.mode = m
  BY <1>1 DEF Good, Blobs
<1> HIDE DEF n
<1>7. Coherent(n, t)
  BY <1>1, <1>3, <1>6, TxNames DEF Good, Coherent, CandidateStatus
<1>8. Tells(n, t, p)
  BY <1>3, <1>6 DEF Tells
<1>9. n.finalizeTx # None => t[n.finalizeTx] # "unsent"
  BY <1>1, <1>6 DEF Good
<1> QED
  BY <1>4, <1>5, <1>7, <1>8, <1>9 DEF Good, n

LEMMA ReportedIsGood ==
    ASSUME NEW b, NEW t, NEW p, Good(b, t, p), NEW x \in ManualTxs \cup {None},
           x # None => t[x] # "unsent"
    PROVE  Good(FinalizeReported(b, x), t, p)
<1>1. CASE x # None /\ b.finalizeTx = x
  BY <1>1, LongerIsGood DEF FinalizeReported
<1>2. CASE ~(x # None /\ b.finalizeTx = x)
  <2> DEFINE n == FinalizeReported(b, x)
  <2>1. n \in Blobs
    BY <1>2, TxNames DEF Good, Blobs, FinalizeReported
  <2>2. /\ n.status = "finalized" /\ n.commit = b.commit /\ n.commitTx = b.commitTx /\ n.finalize = "confirmed"
        /\ n.finalizeTx = x /\ n.confirmed = TRUE /\ n.mode = "corepass"
    BY <1>2 DEF Good, Blobs, FinalizeReported
  <2> HIDE DEF n
  <2>3. Coherent(n, t)
    BY <2>2, TxNames DEF Good, Coherent, CandidateStatus
  <2>4. Tells(n, t, p)
    BY <2>2 DEF Good, Tells
  <2> QED
    BY <2>1, <2>2, <2>3, <2>4 DEF Good, n
<1> QED
  BY <1>1, <1>2

LEMMA RelayedIsGood ==
    ASSUME NEW b, NEW t, NEW p, Good(b, t, p), b.finalizeTx = None,
           NEW x \in RelayTxs, t[x] # "unsent", t[CommitTx] = "ok"
    PROVE  Good(RelaySubmitted(b, x), t, p)
<1> DEFINE n == RelaySubmitted(b, x)
<1>1. n \in Blobs
  BY TxNames DEF Good, Blobs, RelaySubmitted, CandidateStatus
<1>2. /\ n.status = "finalize_submitted" /\ n.ttl = b.ttl /\ n.commit = b.commit /\ n.commitTx = b.commitTx
      /\ n.finalize = "submitted" /\ n.finalizeTx = x /\ n.confirmed = b.confirmed /\ n.mode = "relayer"
  BY DEF Good, Blobs, RelaySubmitted
<1> HIDE DEF n
<1>3. Coherent(n, t)
  BY <1>2, TxNames DEF Good, Blobs, Coherent, CandidateStatus
<1>4. Tells(n, t, p)
  BY <1>2, <1>3 DEF Coherent, Good, Tells
<1> QED
  BY <1>1, <1>2, <1>3, <1>4 DEF Good, n

LEMMA RetryingIsGood ==
    ASSUME NEW b, NEW t, NEW p, Good(b, t, p), b.finalizeTx = None, ~b.confirmed, t[CommitTx] = "ok"
    PROVE  Good(FinalizeRetrying(b), t, p)
BY TxNames DEF Good, Blobs, Coherent, Tells, FinalizeRetrying, CandidateStatus

LEMMA ExpiredIsGood ==
    ASSUME NEW b, NEW t, NEW p, Good(b, t, p), b.finalizeTx = None, ~b.confirmed, t[CommitTx] = "ok",
           p \in {"none", "expired"}, ~DeliveredBy(t)
    PROVE  Good(FinalizeExpired(b), t, p)
<1> DEFINE n == FinalizeExpired(b)
<1>1. n \in Blobs
  BY DEF Good, Blobs, FinalizeExpired
<1>2. /\ n.status = "finalize_expired" /\ n.finalize = "expired" /\ n.finalizeTx = None /\ n.confirmed = FALSE
      /\ n.commit = b.commit /\ n.commitTx = b.commitTx /\ n.mode = b.mode
  BY DEF Good, Blobs, FinalizeExpired
<1> HIDE DEF n
<1>3. Coherent(n, t)
  BY <1>2 DEF Good, Coherent, CandidateStatus
<1>4. Tells(n, t, p)
  BY <1>2 DEF Good, Tells
<1> QED
  BY <1>1, <1>2, <1>3, <1>4 DEF Good, n

LEMMA CommitCheckedIsGood ==
    ASSUME NEW b, NEW t, NEW p, Good(b, t, p), b.status = "commit_submitted"
    PROVE  LET receipt == IF b.commitTx = None THEN "unsent" ELSE t[b.commitTx]
           IN  Good(CommitChecked(b, receipt), t, p)
<1> DEFINE receipt == IF b.commitTx = None THEN "unsent" ELSE t[b.commitTx]
<1>1. /\ b.commitTx \in {CommitTx, None} /\ b.finalize # "none"
      /\ receipt \in {"ok", "reverted"} => b.commitTx = CommitTx /\ receipt = t[CommitTx]
  BY DEF Good, Blobs, Coherent, CandidateStatus
<1> HIDE DEF receipt
<1>2. ASSUME NEW status \in {"commit_confirmed", "commit_failed"}, NEW commit \in {"commit_confirmed", "commit_reverted"},
             commit = "commit_confirmed" \/ status = "commit_confirmed" => t[CommitTx] = "ok",
             status = "commit_failed" => t[CommitTx] = "reverted", b.commitTx = CommitTx
      PROVE  Good([b EXCEPT !.status = status, !.commit = commit], t, p)
  <2> DEFINE n == [b EXCEPT !.status = status, !.commit = commit]
  <2>1. n \in Blobs
    BY DEF Good, Blobs, CandidateStatus
  <2>2. /\ n.status = status /\ n.commit = commit /\ n.commitTx = CommitTx /\ n.finalize = b.finalize
        /\ n.finalizeTx = b.finalizeTx /\ n.confirmed = b.confirmed /\ n.mode = b.mode
    BY <1>2 DEF Good, Blobs
  <2> HIDE DEF n
  <2>3. Coherent(n, t)
    BY <1>1, <2>2, TxNames DEF Good, Coherent
  <2>4. Tells(n, t, p)
    BY <1>2, <2>2 DEF Good, Tells
  <2>5. Good(n, t, p)
    BY <2>1, <2>2, <2>3, <2>4 DEF Good
  <2> QED
    BY <2>5 DEF n
<1>3. receipt \in {"ok", "reverted"} => Good(CommitChecked(b, receipt), t, p)
  BY <1>1, <1>2 DEF CommitChecked
<1>4. receipt \notin {"ok", "reverted"} => CommitChecked(b, receipt) = b
  BY DEF CommitChecked
<1>5. Good(CommitChecked(b, receipt), t, p)
  BY <1>3, <1>4
<1> QED
  BY <1>5 DEF receipt

(* The receipt of a hash in the record, and a window that was seen closed. *)
LEMMA FinalizeCheckedIsGood ==
    ASSUME NEW b, NEW t, NEW p, Good(b, t, p), ChainOk(t, p), NEW seen, b.finalizeTx # None, ~b.confirmed,
           b.status \in {"commit_confirmed", "finalize_submitted"},
           seen = "expired" => p \in {"none", "expired"} /\ t[CommitTx] = "ok" /\ ~DeliveredBy(t)
    PROVE  /\ Good(FinalizeChecked(b, t[b.finalizeTx], seen), t, p)
           /\ t[b.finalizeTx] = "reverted" => Good(HashCleared(b), t, p)
<1> DEFINE x == b.finalizeTx
           c == [b EXCEPT !.finalizeTx = None]
<1>1. x \in FinalizeTxs /\ t[x] \in {"pending", "ok", "reverted"} /\ t[CommitTx] = "ok" /\ b.finalize = "submitted"
  BY TxNames DEF Good, Blobs, Coherent, Tells, ChainOk, Receipts
<1>2. CASE t[x] = "pending"
  BY <1>1, <1>2, TxNames DEF Good, Blobs, Coherent, Tells, FinalizeChecked, CandidateStatus
<1>3. CASE t[x] = "ok"
  <2>1. DeliveredBy(t)
    BY <1>1, <1>3 DEF DeliveredBy
  <2> QED
    BY <1>1, <1>3, <2>1 DEF Good, Blobs, Coherent, Tells, FinalizeChecked, CandidateStatus
<1>4. CASE t[x] = "reverted"
  <2>1. /\ Good([c EXCEPT !.status = "commit_confirmed", !.finalize = "retrying"], t, p)
        /\ seen = "expired" => Good([c EXCEPT !.status = "finalize_expired", !.finalize = "expired"], t, p)
    BY <1>1, TxNames DEF Good, Blobs, Coherent, Tells, CandidateStatus
  <2>2. \E y \in RelayTxs : t[y] = "reverted"
    BY <1>1, <1>4 DEF Good, Coherent
  <2>3. Good(c, t, p)
    BY <1>1, <2>2, TxNames DEF Good, Blobs, Coherent, Tells
  <2> QED
    BY <1>1, <1>4, <2>1, <2>3 DEF FinalizeChecked, FinalizeExpired, FinalizeRetrying, HashCleared
<1> QED
  BY <1>1, <1>2, <1>3, <1>4

-----------------------------------------------------------------------------
(* The steps *)

LEMMA InitSessions == Init => SessionsInv
<1> SUFFICES ASSUME Init
             PROVE  SessionsInv
  OBVIOUS
<1>1. \A s \in Sessions : ChainOk(tx[s], phase[s])
  BY TxNames DEF Init, Chain!LifeInit, Chain!Phases, ChainOk, DeliveredBy, Receipts
<1>2. RowsOk(row, tx, phase)
  BY NewSessionIsGood DEF Init, RowsOk
<1>3. \A h \in Handlers : HandlerOk(handler[h], tx, phase)
  BY DEF Init, HandlerOk
<1>4. SweepOk(worker, tx, phase)
  BY DEF Init, SweepOk
<1> QED
  BY <1>1, <1>2, <1>3, <1>4 DEF Init, Chain!LifeInit, SessionsInv

(* What each kind of step has to show. *)
LEMMA ChainStepKeeps ==
    ASSUME SessionsInv, ChainStep, row' = row, handler' = handler, worker' = worker
    PROVE  SessionsInv'
<1>1. RowsOk(row, tx', phase') /\ SweepOk(worker, tx', phase')
  BY RowsStay, SweepStays DEF SessionsInv, ChainStep
<1>2. \A h \in Handlers : HandlerOk(handler[h], tx', phase')
  BY HandlerStays DEF SessionsInv, ChainStep
<1> QED
  BY <1>1, <1>2 DEF SessionsInv, ChainStep

LEMMA HandlerStepKeeps ==
    ASSUME SessionsInv, ChainStep, row' = row, worker' = worker, NEW h \in Handlers, NEW r,
           handler' = [handler EXCEPT ![h] = r], HandlerOk(r, tx', phase')
    PROVE  SessionsInv'
<1>1. RowsOk(row, tx', phase') /\ SweepOk(worker, tx', phase')
  BY RowsStay, SweepStays DEF SessionsInv, ChainStep
<1>2. \A k \in Handlers : HandlerOk(handler[k], tx', phase')
  BY HandlerStays DEF SessionsInv, ChainStep
<1>3. handler' = [k \in Handlers |-> handler'[k]] /\ \A k \in Handlers : HandlerOk(handler'[k], tx', phase')
  BY <1>2 DEF SessionsInv
<1> QED
  BY <1>1, <1>3 DEF SessionsInv, ChainStep

LEMMA WorkerStepKeeps ==
    ASSUME SessionsInv, ChainStep, row' = row, handler' = handler, SweepOk(worker', tx', phase')
    PROVE  SessionsInv'
<1>1. RowsOk(row, tx', phase')
  BY RowsStay DEF SessionsInv, ChainStep
<1>2. \A h \in Handlers : HandlerOk(handler[h], tx', phase')
  BY HandlerStays DEF SessionsInv, ChainStep
<1> QED
  BY <1>1, <1>2 DEF SessionsInv, ChainStep

LEMMA RowStepKeeps ==
    ASSUME SessionsInv, tx' = tx, phase' = phase, NEW s \in Sessions, NEW b,
           row' = [row EXCEPT ![s] = b], b # None => Good(b, tx[s], phase[s]),
           handler' = [h \in Handlers |-> handler'[h]],
           \A h \in Handlers : HandlerOk(handler'[h], tx, phase), SweepOk(worker', tx, phase)
    PROVE  SessionsInv'
<1>1. row' = [q \in Sessions |-> row'[q]] /\ RowsOk(row', tx, phase)
  BY DEF SessionsInv, RowsOk
<1> QED
  BY <1>1 DEF SessionsInv

LEMMA WorldKeeps ==
    ASSUME SessionsInv, WorldNext
    PROVE  SessionsInv'
<1>1. PICK s \in Sessions :
        \/ MineCommit(s) \/ (\E x \in FinalizeTxs : MineFinalize(s, x))
        \/ FinalizeWindowOpens(s) \/ FinalizeWindowCloses(s) \/ CommitCleared(s)
        \/ SendCommit(s) \/ (\E x \in ManualTxs : SendFinalize(s, x)) \/ RowExpires(s)
  BY DEF WorldNext
<1>2. CASE MineCommit(s)
  BY <1>2, MineCommitMoves, ChainStepKeeps DEF MineCommit
<1>3. CASE \E x \in FinalizeTxs : MineFinalize(s, x)
  BY <1>3, MineFinalizeMoves, ChainStepKeeps DEF MineFinalize
<1>4. CASE FinalizeWindowOpens(s)
  BY <1>4, OnlyPhaseMoves, ChainStepKeeps DEF FinalizeWindowOpens
<1>5. CASE FinalizeWindowCloses(s)
  BY <1>5, OnlyPhaseMoves, ChainStepKeeps DEF FinalizeWindowCloses
<1>6. CASE CommitCleared(s)
  BY <1>6, OnlyPhaseMoves, ChainStepKeeps DEF CommitCleared, Chain!Clear
<1>7. CASE SendCommit(s)
  BY <1>7, TxNames, OnlyTxMoves, ChainStepKeeps DEF SendCommit
<1>8. CASE \E x \in ManualTxs : SendFinalize(s, x)
  BY <1>8, TxNames, OnlyTxMoves, ChainStepKeeps DEF SendFinalize
<1>9. CASE RowExpires(s)
  BY <1>9, RowStepKeeps DEF RowExpires, SessionsInv
<1> QED
  BY <1>1, <1>2, <1>3, <1>4, <1>5, <1>6, <1>7, <1>8, <1>9

LEMMA ArrivalKeeps ==
    ASSUME SessionsInv, NEW h \in Handlers, NEW s \in Sessions, NEW step \in {"precheck", "relay", "write"}, NEW b,
           Serve(h, step, s, b), UNCHANGED <<phase, tx, row, worker>>,
           Good(b, tx[s], phase[s]), step = "relay" => b.finalizeTx = None
    PROVE  SessionsInv'
<1> DEFINE r == [step |-> step, session |-> s, copy |-> b]
<1>1. HandlerOk(r, tx, phase)
  BY DEF HandlerOk
<1>2. handler' = [handler EXCEPT ![h] = r]
  BY DEF Serve
<1> HIDE DEF r
<1> QED
  BY <1>1, <1>2, ChainRests, HandlerStepKeeps

LEMMA WebArrivals ==
    ASSUME SessionsInv, NEW h \in Handlers, NEW s \in Sessions,
           \/ IdentifyCallback(h, s) \/ CommitCallback(h, s) \/ FinalizeRequest(h, s)
           \/ \E x \in ManualTxs : FinalizeCallback(h, s, x)
    PROVE  SessionsInv'
<1>1. row[s] # None => Good(row[s], tx[s], phase[s])
  BY DEF SessionsInv, RowsOk
<1>2. CASE IdentifyCallback(h, s)
  BY <1>1, <1>2, ArrivalKeeps DEF IdentifyCallback, Arrives
<1>3. CASE CommitCallback(h, s)
  <2>1. PICK hash \in {CommitTx, None} : Serve(h, "write", s, CommitSubmitted(row[s], hash))
    BY <1>3 DEF CommitCallback
  <2>2. Good(CommitSubmitted(row[s], hash), tx[s], phase[s])
    BY <1>1, <1>3, SubmittedIsGood DEF CommitCallback, Arrives
  <2> QED
    BY <1>3, <2>1, <2>2, ArrivalKeeps DEF CommitCallback, Arrives
<1>4. CASE FinalizeRequest(h, s)
  BY <1>1, <1>4, ArrivalKeeps DEF FinalizeRequest, Arrives
<1>5. ASSUME NEW x \in ManualTxs, FinalizeCallback(h, s, x)
      PROVE  SessionsInv'
  <2>1. PICK hash \in {x, None} : Serve(h, "write", s, FinalizeReported(row[s], hash))
    BY <1>5 DEF FinalizeCallback
  <2>2. Good(FinalizeReported(row[s], hash), tx[s], phase[s])
    BY <1>1, <1>5, ReportedIsGood DEF FinalizeCallback, Arrives
  <2> QED
    BY <1>5, <2>1, <2>2, ArrivalKeeps DEF FinalizeCallback, Arrives
<1> QED
  BY <1>2, <1>3, <1>4, <1>5

(* A request that goes on has a Good copy. *)
LEMMA Serving ==
    ASSUME SessionsInv, NEW h \in Handlers, handler[h].step # "idle"
    PROVE  /\ handler[h].session \in Sessions
           /\ Good(handler[h].copy, tx[handler[h].session], phase[handler[h].session])
           /\ handler[h].step = "relay" => handler[h].copy.finalizeTx = None
BY DEF SessionsInv, HandlerOk, NoRequest

LEMMA RelayAnswerKeeps ==
    ASSUME SessionsInv, NEW h \in Handlers, RelayAnswers(h)
    PROVE  SessionsInv'
<1> DEFINE s == handler[h].session
           b == handler[h].copy
<1>1. s \in Sessions /\ Good(b, tx[s], phase[s]) /\ b.finalizeTx = None
  BY Serving DEF RelayAnswers
<1> HIDE DEF s, b
<1>2. PICK answer \in RelayAnswer :
        /\ RelayFinalize(s, answer)
        /\ Serve(h, "write", s, [(IF answer \in RelayTxs THEN RelaySubmitted(b, answer) ELSE b) EXCEPT !.ttl = "long"])
  BY DEF RelayAnswers, s, b
<1>3. UNCHANGED <<phase, row, worker>>
  BY DEF RelayAnswers
<1>4. ChainStep /\ (answer \in RelayTxs => tx'[s][CommitTx] = "ok" /\ tx'[s][answer] # "unsent")
  BY <1>1, <1>2, <1>3, RelayMoves
<1>5. Good(b, tx'[s], phase'[s])
  BY <1>1, <1>4, GoodStays DEF ChainStep, AllMove
<1> DEFINE c == IF answer \in RelayTxs THEN RelaySubmitted(b, answer) ELSE b
           n == [c EXCEPT !.ttl = "long"]
           r == [step |-> "write", session |-> s, copy |-> n]
<1>6. Good(c, tx'[s], phase'[s])
  <2>1. CASE answer \in RelayTxs
    BY <1>1, <1>4, <1>5, <2>1, RelayedIsGood
  <2>2. CASE answer \notin RelayTxs
    BY <1>5, <2>2
  <2> QED
    BY <2>1, <2>2
<1>7. handler' = [handler EXCEPT ![h] = r]
  BY <1>2 DEF Serve
<1> HIDE DEF c
<1>8. Good(n, tx'[s], phase'[s])
  BY <1>6, LongerIsGood
<1> HIDE DEF n
<1>9. HandlerOk(r, tx', phase')
  BY <1>1, <1>8 DEF HandlerOk
<1> HIDE DEF r
<1> QED
  BY <1>3, <1>4, <1>7, <1>9, HandlerStepKeeps

LEMMA PrecheckKeeps ==
    ASSUME SessionsInv, NEW h \in Handlers, PrecheckAnswers(h) \/ PersistFails(h)
    PROVE  SessionsInv'
<1> DEFINE s == handler[h].session
           b == handler[h].copy
<1>1. s \in Sessions /\ Good(b, tx[s], phase[s])
  BY Serving DEF PrecheckAnswers, PersistFails
<1>2. Good(CommitRequested(b), tx[s], phase[s]) /\ Good(PrecheckRejected(b), tx[s], phase[s])
  BY <1>1, RequestedIsGood, RejectedIsGood
<1>3. /\ UNCHANGED <<phase, tx, row, worker>>
      /\ \/ Serve(h, "persist", s, CommitRequested(b))
         \/ Serve(h, "write", s, PrecheckRejected(b))
         \/ Serve(h, "write", s, b)
  BY DEF PrecheckAnswers, PersistFails
<1> HIDE DEF s, b
<1>4. ASSUME NEW step \in {"persist", "write"}, NEW c, Serve(h, step, s, c), Good(c, tx[s], phase[s])
      PROVE  SessionsInv'
  <2> DEFINE r == [step |-> step, session |-> s, copy |-> c]
  <2>1. HandlerOk(r, tx, phase) /\ handler' = [handler EXCEPT ![h] = r]
    BY <1>1, <1>4 DEF HandlerOk, Serve
  <2> HIDE DEF r
  <2> QED
    BY <1>3, <2>1, ChainRests, HandlerStepKeeps
<1> QED
  BY <1>1, <1>2, <1>3, <1>4

LEMMA WriteKeeps ==
    ASSUME SessionsInv, NEW h \in Handlers, Write(h)
    PROVE  SessionsInv'
<1> DEFINE s == handler[h].session
           b == Stored(s, handler[h].copy)
<1>1. s \in Sessions /\ (b # None => Good(b, tx[s], phase[s]))
  BY Serving DEF Write, Stored
<1>2. UNCHANGED <<phase, tx, worker>> /\ row' = [row EXCEPT ![s] = b] /\ handler' = [handler EXCEPT ![h] = NoRequest]
  BY DEF Write
<1>3. handler' = [k \in Handlers |-> handler'[k]] /\ \A k \in Handlers : HandlerOk(handler'[k], tx, phase)
  BY <1>2 DEF SessionsInv, HandlerOk
<1>4. SweepOk(worker', tx, phase)
  BY <1>2 DEF SessionsInv
<1> HIDE DEF s, b
<1> QED
  BY <1>1, <1>2, <1>3, <1>4, RowStepKeeps

LEMMA WebKeeps ==
    ASSUME SessionsInv, WebNext
    PROVE  SessionsInv'
<1>1. PICK h \in Handlers :
        \/ \E s \in Sessions : \/ IdentifyCallback(h, s) \/ CommitCallback(h, s) \/ FinalizeRequest(h, s)
                               \/ \E x \in ManualTxs : FinalizeCallback(h, s, x)
        \/ PrecheckAnswers(h) \/ PersistFails(h) \/ RelayAnswers(h) \/ Write(h) \/ RequestLost(h)
  BY DEF WebNext
<1>2. CASE RequestLost(h)
  <2>1. HandlerOk(NoRequest, tx, phase)
    BY DEF HandlerOk
  <2> QED
    BY <1>2, <2>1, ChainRests, HandlerStepKeeps DEF RequestLost
<1> QED
  BY <1>1, <1>2, WebArrivals, PrecheckKeeps, RelayAnswerKeeps, WriteKeeps

-----------------------------------------------------------------------------
(* The worker *)

LEMMA SweepKeeps ==
    ASSUME SessionsInv, Sweep
    PROVE  SessionsInv'
<1> DEFINE candidates == {s \in Sessions : row[s] # None /\ row[s].status \in CandidateStatus}
           l == [s \in candidates |-> row[s]]
<1>1. worker' = [step |-> "next", session |-> None, copy |-> None, listed |-> l, seen |-> "none"]
  BY DEF Sweep, NoSweep
<1>2. ListOk(l, tx, phase)
  BY DEF ListOk, SessionsInv, RowsOk
<1> HIDE DEF l
<1>3. SweepOk(worker', tx, phase)
  BY <1>1, <1>2 DEF SweepOk
<1>4. UNCHANGED <<phase, tx, row, handler>>
  BY DEF Sweep
<1> QED
  BY <1>3, <1>4, ChainRests, WorkerStepKeeps

(* A worker at a step of a session, taken apart. *)
LEMMA Working ==
    ASSUME SessionsInv, worker.step \in {"commit", "wallet", "pending", "receipt", "upsert"}
    PROVE  /\ worker.session \in DOMAIN worker.listed /\ worker.session \in Sessions
           /\ StepOk(worker, tx[worker.session], phase[worker.session])
           /\ ListOk(worker.listed, tx, phase)
           /\ worker = [step |-> worker.step, session |-> worker.session, copy |-> worker.copy,
                        listed |-> worker.listed, seen |-> worker.seen]
<1>1. worker # NoSweep
  BY DEF NoSweep
<1> QED
  BY <1>1 DEF SessionsInv, SweepOk, ListOk

(* The worker goes to another step of the session it is at, or to its first. *)
LEMMA StepKeeps ==
    ASSUME SessionsInv, ChainStep, row' = row, handler' = handler, ListOk(worker.listed, tx, phase),
           NEW step \in {"commit", "wallet", "pending", "receipt", "upsert"}, NEW s \in DOMAIN worker.listed,
           NEW b, NEW seen,
           worker' = [step |-> step, session |-> s, copy |-> b, listed |-> worker.listed, seen |-> seen],
           StepOk([step |-> step, session |-> s, copy |-> b, listed |-> worker.listed, seen |-> seen],
                  tx'[s], phase'[s])
    PROVE  SessionsInv'
<1> DEFINE w == [step |-> step, session |-> s, copy |-> b, listed |-> worker.listed, seen |-> seen]
<1>1. ListOk(worker.listed, tx', phase')
  BY ListStays DEF ChainStep
<1>2. /\ w = [step |-> w.step, session |-> w.session, copy |-> w.copy, listed |-> w.listed, seen |-> w.seen]
      /\ w.step = step /\ w.session = s /\ w.listed = worker.listed
  OBVIOUS
<1> HIDE DEF w
<1>3. SweepOk(w, tx', phase')
  BY <1>1, <1>2 DEF SweepOk, w
<1>4. worker' = w
  BY DEF w
<1> QED
  BY <1>3, <1>4, WorkerStepKeeps

LEMMA TakeKeeps ==
    ASSUME SessionsInv, NEW s \in Sessions, TakeSession(s)
    PROVE  SessionsInv'
<1> DEFINE b == WithFinalize(worker.listed[s])
           step == IF b.status = "commit_submitted" THEN "commit" ELSE "wallet"
<1>1. /\ worker.step = "next" /\ s \in DOMAIN worker.listed /\ UNCHANGED <<phase, tx, row, handler>>
      /\ worker' = [worker EXCEPT !.session = s, !.copy = b, !.step = step]
  BY DEF TakeSession
<1>2. worker # NoSweep
  BY <1>1 DEF NoSweep
<1>3. /\ worker = [step |-> worker.step, session |-> worker.session, copy |-> worker.copy,
                   listed |-> worker.listed, seen |-> worker.seen]
      /\ ListOk(worker.listed, tx, phase)
  BY <1>2 DEF SessionsInv, SweepOk
<1>4. Good(worker.listed[s], tx[s], phase[s]) /\ worker.listed[s].status \in CandidateStatus
  BY <1>1, <1>3 DEF ListOk
<1>5. Good(b, tx[s], phase[s]) /\ b.status = worker.listed[s].status
  BY <1>4, WithFinalizeIsGood DEF WithFinalize, Good, Blobs
<1> HIDE DEF b
<1> DEFINE w == [step |-> step, session |-> s, copy |-> b, listed |-> worker.listed, seen |-> worker.seen]
<1>6. worker' = w
  BY <1>1, <1>3
<1>7. StepOk(w, tx[s], phase[s])
  BY <1>4, <1>5 DEF StepOk, CandidateStatus
<1> QED
  BY <1>1, <1>3, <1>6, <1>7, ChainRests, StepKeeps

LEMMA CheckCommitKeeps ==
    ASSUME SessionsInv, CheckCommit
    PROVE  SessionsInv'
<1> DEFINE s == worker.session
           b == CommitChecked(worker.copy, CommitReceipt)
           step == IF b.status = "commit_confirmed" THEN "wallet" ELSE "upsert"
           w == [step |-> step, session |-> s, copy |-> b, listed |-> worker.listed, seen |-> worker.seen]
<1>1. /\ worker.step = "commit" /\ UNCHANGED <<phase, tx, row, handler>>
      /\ worker' = [worker EXCEPT !.copy = b, !.step = step]
  BY DEF CheckCommit
<1>2. /\ s \in DOMAIN worker.listed /\ s \in Sessions /\ ListOk(worker.listed, tx, phase)
      /\ StepOk(worker, tx[s], phase[s])
      /\ worker = [step |-> worker.step, session |-> s, copy |-> worker.copy,
                   listed |-> worker.listed, seen |-> worker.seen]
  BY <1>1, Working
<1>3. Good(b, tx[s], phase[s])
  BY <1>1, <1>2, CommitCheckedIsGood DEF StepOk, CommitReceipt
<1> HIDE DEF b
<1>4. worker' = w
  BY <1>1, <1>2
<1>5. StepOk(w, tx[s], phase[s])
  BY <1>3 DEF StepOk
<1> HIDE DEF s
<1> QED
  BY <1>1, <1>2, <1>4, <1>5, ChainRests, StepKeeps

LEMMA ReadWalletKeeps ==
    ASSUME SessionsInv, ReadWallet
    PROVE  SessionsInv'
<1> DEFINE s == worker.session
           b == worker.copy
           step == IF b.confirmed THEN "upsert" ELSE IF b.finalizeTx # None THEN "receipt" ELSE "pending"
<1>1. worker.step = "wallet" /\ UNCHANGED <<phase, tx, row, handler>>
  BY DEF ReadWallet
<1>2. PICK seen \in PhaseRead(phase[s]) : worker' = [worker EXCEPT !.seen = seen, !.step = step]
  BY DEF ReadWallet
<1>3. /\ s \in DOMAIN worker.listed /\ s \in Sessions /\ ListOk(worker.listed, tx, phase)
      /\ StepOk(worker, tx[s], phase[s])
      /\ worker = [step |-> worker.step, session |-> s, copy |-> b,
                   listed |-> worker.listed, seen |-> worker.seen]
  BY <1>1, Working
<1>4. ChainOk(tx[s], phase[s])
  BY <1>3 DEF SessionsInv
<1>5. seen = "expired" => phase[s] = "expired"
  BY <1>2 DEF PhaseRead
<1> DEFINE w == [step |-> step, session |-> s, copy |-> b, listed |-> worker.listed, seen |-> seen]
<1>6. worker' = w
  BY <1>2, <1>3
<1>7. StepOk(w, tx[s], phase[s])
  BY <1>1, <1>3, <1>4, <1>5 DEF StepOk, ChainOk
<1> HIDE DEF s, b
<1> QED
  BY <1>1, <1>3, <1>6, <1>7, ChainRests, StepKeeps

(* The worker has made up its mind and goes to write. *)
LEMMA WritingKeeps ==
    ASSUME SessionsInv, ChainStep, row' = row, handler' = handler,
           worker.step \in {"commit", "wallet", "pending", "receipt"},
           NEW b, WorkerWrites(b), Good(b, tx'[worker.session], phase'[worker.session])
    PROVE  SessionsInv'
<1> DEFINE s == worker.session
           w == [step |-> "upsert", session |-> s, copy |-> b, listed |-> worker.listed, seen |-> "none"]
<1>1. /\ s \in DOMAIN worker.listed /\ ListOk(worker.listed, tx, phase)
      /\ worker = [step |-> worker.step, session |-> s, copy |-> worker.copy,
                   listed |-> worker.listed, seen |-> worker.seen]
  BY Working
<1>2. worker' = w
  BY <1>1 DEF WorkerWrites
<1>3. StepOk(w, tx'[s], phase'[s])
  BY DEF StepOk
<1> HIDE DEF s
<1> QED
  BY <1>1, <1>2, <1>3, StepKeeps

LEMMA FailingKeeps ==
    ASSUME SessionsInv, SessionFails
    PROVE  SessionsInv'
<1>1. worker.step \in {"commit", "wallet", "receipt"} /\ WorkerWrites(worker.copy)
      /\ UNCHANGED <<phase, tx, row, handler>>
  BY DEF SessionFails
<1>2. Good(worker.copy, tx[worker.session], phase[worker.session])
  BY <1>1, Working DEF StepOk
<1> QED
  BY <1>1, <1>2, ChainRests, WritingKeeps

LEMMA SubmittedFinalizeKeeps ==
    ASSUME SessionsInv, HandleSubmittedFinalize
    PROVE  SessionsInv'
<1> DEFINE s == worker.session
           b == worker.copy
           n == FinalizeChecked(b, tx[s][b.finalizeTx], worker.seen)
<1>1. /\ worker.step = "receipt" /\ UNCHANGED <<phase, tx, row, handler>>
      /\ \/ WorkerWrites(n)
         \/ tx[s][b.finalizeTx] = "reverted" /\ WorkerWrites(HashCleared(b))
  BY DEF HandleSubmittedFinalize
<1>2. s \in Sessions /\ StepOk(worker, tx[s], phase[s]) /\ ChainOk(tx[s], phase[s])
  BY <1>1, Working DEF SessionsInv
<1>3. /\ Good(n, tx[s], phase[s])
      /\ tx[s][b.finalizeTx] = "reverted" => Good(HashCleared(b), tx[s], phase[s])
  BY <1>1, <1>2, FinalizeCheckedIsGood DEF StepOk
<1> HIDE DEF n
<1> QED
  BY <1>1, <1>3, ChainRests, WritingKeeps

LEMMA PendingFinalizeKeeps ==
    ASSUME SessionsInv, HandlePendingFinalize
    PROVE  SessionsInv'
<1> DEFINE s == worker.session
           b == worker.copy
<1>1. worker.step = "pending" /\ UNCHANGED <<phase, row, handler>>
  BY DEF HandlePendingFinalize
<1>2. s \in Sessions /\ StepOk(worker, tx[s], phase[s])
  BY <1>1, Working
<1>3. /\ Good(b, tx[s], phase[s]) /\ b.finalizeTx = None /\ ~b.confirmed /\ tx[s][CommitTx] = "ok"
      /\ worker.seen = "expired" => phase[s] \in {"none", "expired"} /\ ~DeliveredBy(tx[s])
  BY <1>1, <1>2 DEF StepOk, Good, Tells
<1>4. CASE RelayVerdict(worker.seen) = "expired" /\ WorkerWrites(FinalizeExpired(b)) /\ UNCHANGED tx
  <2>1. worker.seen = "expired"
    BY <1>4 DEF RelayVerdict
  <2>2. Good(FinalizeExpired(b), tx[s], phase[s])
    BY <1>3, <2>1, ExpiredIsGood
  <2> QED
    BY <1>1, <1>4, <2>2, ChainRests, WritingKeeps
<1>5. CASE RelayVerdict(worker.seen) = "retrying" /\ WorkerWrites(FinalizeRetrying(b)) /\ UNCHANGED tx
  <2>1. Good(FinalizeRetrying(b), tx[s], phase[s])
    BY <1>3, RetryingIsGood
  <2> QED
    BY <1>1, <1>5, <2>1, ChainRests, WritingKeeps
<1>6. CASE Relay
  <2>1. PICK answer \in RelayAnswer :
          /\ RelayFinalize(s, answer)
          /\ WorkerWrites(CASE answer = "finalize_expired" -> FinalizeExpired(b)
                            [] answer \in RelayTxs         -> RelaySubmitted(b, answer)
                            [] OTHER                       -> FinalizeRetrying(b))
    BY <1>6 DEF Relay
  <2>2. /\ ChainStep
        /\ answer \in RelayTxs => tx'[s][CommitTx] = "ok" /\ tx'[s][answer] # "unsent"
        /\ answer = "finalize_expired" =>
              phase'[s] = "expired" /\ tx'[s][CommitTx] = "ok" /\ ~DeliveredBy(tx'[s])
    BY <1>1, <1>2, <2>1, RelayMoves
  <2>3. Good(b, tx'[s], phase'[s]) /\ tx'[s][CommitTx] = "ok"
    BY <1>2, <1>3, <2>2, GoodStays DEF ChainStep, AllMove, Moves
  <2>4. CASE answer = "finalize_expired"
    <3>1. Good(FinalizeExpired(b), tx'[s], phase'[s]) /\ WorkerWrites(FinalizeExpired(b))
      BY <1>3, <2>1, <2>2, <2>3, <2>4, TxNames, ExpiredIsGood
    <3> QED
      BY <1>1, <2>2, <3>1, WritingKeeps
  <2>5. CASE answer \in RelayTxs
    <3>1. Good(RelaySubmitted(b, answer), tx'[s], phase'[s]) /\ WorkerWrites(RelaySubmitted(b, answer))
      BY <1>3, <2>1, <2>2, <2>3, <2>5, TxNames, RelayedIsGood
    <3> QED
      BY <1>1, <2>2, <3>1, WritingKeeps
  <2>6. CASE answer # "finalize_expired" /\ answer \notin RelayTxs
    <3>1. Good(FinalizeRetrying(b), tx'[s], phase'[s]) /\ WorkerWrites(FinalizeRetrying(b))
      BY <1>3, <2>1, <2>3, <2>6, RetryingIsGood
    <3> QED
      BY <1>1, <2>2, <3>1, WritingKeeps
  <2> QED
    BY <2>4, <2>5, <2>6
<1> QED
  BY <1>4, <1>5, <1>6 DEF HandlePendingFinalize

LEMMA UpsertKeeps ==
    ASSUME SessionsInv, Upsert
    PROVE  SessionsInv'
<1> DEFINE s    == worker.session
           rest == DOMAIN worker.listed \ {s}
           l    == [q \in rest |-> worker.listed[q]]
           b    == Stored(s, worker.copy)
<1>1. /\ worker.step = "upsert" /\ UNCHANGED <<phase, tx, handler>>
      /\ row' = [row EXCEPT ![s] = b] \/ UNCHANGED row
      /\ worker' = IF rest = {} THEN NoSweep ELSE [NoSweep EXCEPT !.step = "next", !.listed = l]
  BY DEF Upsert
<1>2. s \in Sessions /\ StepOk(worker, tx[s], phase[s]) /\ ListOk(worker.listed, tx, phase)
  BY <1>1, Working
<1>3. b # None => Good(b, tx[s], phase[s])
  BY <1>2 DEF Stored, StepOk
<1>4. ListOk(l, tx, phase)
  BY <1>2 DEF ListOk
<1>5. SweepOk(worker', tx, phase)
  <2>1. CASE rest = {}
    BY <1>1, <2>1 DEF SweepOk
  <2>2. CASE rest # {}
    <3> HIDE DEF l
    <3>1. worker' = [step |-> "next", session |-> None, copy |-> None, listed |-> l, seen |-> "none"]
      BY <1>1, <2>2 DEF NoSweep
    <3> QED
      BY <1>4, <3>1 DEF SweepOk
  <2> QED
    BY <2>1, <2>2
<1>6. CASE UNCHANGED row
  BY <1>1, <1>5, <1>6, ChainRests, WorkerStepKeeps
<1>7. CASE row' = [row EXCEPT ![s] = b]
  <2>1. handler' = [h \in Handlers |-> handler'[h]] /\ \A h \in Handlers : HandlerOk(handler'[h], tx, phase)
    BY <1>1 DEF SessionsInv
  <2> HIDE DEF s, b
  <2> QED
    BY <1>1, <1>2, <1>3, <1>5, <1>7, <2>1, RowStepKeeps
<1> QED
  BY <1>1, <1>6, <1>7

LEMMA WorkerKeeps ==
    ASSUME SessionsInv, WorkerNext
    PROVE  SessionsInv'
<1>1. CASE BackendRestarts
  <2>1. SweepOk(NoSweep, tx, phase)
    BY DEF SweepOk
  <2> QED
    BY <1>1, <2>1, ChainRests, WorkerStepKeeps DEF BackendRestarts
<1> QED
  BY <1>1, SweepKeeps, TakeKeeps, CheckCommitKeeps, ReadWalletKeeps, PendingFinalizeKeeps,
     SubmittedFinalizeKeeps, FailingKeeps, UpsertKeeps DEF WorkerNext

-----------------------------------------------------------------------------
(* What the runs check, for every value of the constants *)

LEMMA NothingChanges ==
    ASSUME SessionsInv, UNCHANGED vars
    PROVE  SessionsInv'
BY ChainRests, ChainStepKeeps DEF vars

(* Every version of every session is Good, in every state. *)
THEOREM SessionsInvariant == Spec => []SessionsInv
<1>1. Init => SessionsInv
  BY InitSessions
<1>2. SessionsInv /\ [Next]_vars => SessionsInv'
  BY WorkerKeeps, WebKeeps, WorldKeeps, NothingChanges DEF Next
<1> QED
  BY <1>1, <1>2, PTL DEF Spec

LEMMA VersionsAreGood ==
    ASSUME SessionsInv, NEW s \in Sessions, NEW b \in Versions(s)
    PROVE  Good(b, tx[s], phase[s])
<1>1. CASE row[s] # None /\ b = row[s]
  BY <1>1 DEF SessionsInv, RowsOk
<1>2. CASE \E h \in Handlers : handler[h].session = s /\ b = handler[h].copy
  <2>1. PICK h \in Handlers : handler[h].session = s /\ b = handler[h].copy
    BY <1>2
  <2>2. handler[h] # NoRequest
    BY <2>1, TxNames DEF NoRequest
  <2> QED
    BY <2>1, <2>2 DEF SessionsInv, HandlerOk
<1>3. CASE worker.session = s /\ b = worker.copy
  <2>1. worker # NoSweep
    BY <1>3, TxNames DEF NoSweep
  <2>2. worker.step # "next"
    BY <1>3, <2>1, TxNames DEF SessionsInv, SweepOk
  <2> QED
    BY <1>3, <2>1, <2>2 DEF SessionsInv, SweepOk, StepOk
<1>4. CASE s \in DOMAIN worker.listed /\ b = worker.listed[s]
  <2>1. CASE worker = NoSweep
    <3>1. worker.listed = <<>>
      BY <2>1 DEF NoSweep
    <3>2. DOMAIN <<>> = {}
      OBVIOUS
    <3> QED
      BY <1>4, <3>1, <3>2
  <2>2. CASE worker # NoSweep
    BY <1>4, <2>2 DEF SessionsInv, SweepOk, ListOk
  <2> QED
    BY <2>1, <2>2
<1> QED
  BY <1>1, <1>2, <1>3, <1>4 DEF Versions

(* applyCorePassCallback, attemptSessionFinalize, process_session: the writers keep the parts of *)
(* a record in step, whatever copies they write over each other.                               *)
THEOREM RecordsAlwaysCohere == Spec => []RecordsCoherent
<1>1. SessionsInv => RecordsCoherent
  BY VersionsAreGood DEF RecordsCoherent, Good
<1> QED
  BY <1>1, SessionsInvariant, PTL

(* The same writers: what a record says of the chain is so, however old the copy it came from. *)
THEOREM VerdictsAlwaysHold == Spec => []VerdictsHold
<1>1. SessionsInv => VerdictsHold
  <2> SUFFICES ASSUME SessionsInv, NEW s \in Sessions, NEW b \in Versions(s)
               PROVE  Verdict(s, b)
    BY DEF VerdictsHold
  <2>1. Good(b, tx[s], phase[s])
    BY VersionsAreGood
  <2> QED
    BY <2>1 DEF Good, Tells, Verdict, Delivered, DeliveredBy
<1> QED
  BY <1>1, SessionsInvariant, PTL

(* Rows, copies and the worker's list are of the shapes the code gives them. *)
THEOREM TypesAreKept == Spec => []TypeOK
<1>1. SessionsInv => TypeOK
  <2> SUFFICES ASSUME SessionsInv
               PROVE  TypeOK
    OBVIOUS
  <2>1. phase \in [Sessions -> Chain!Phases] /\ tx \in [Sessions -> [Txs -> {"unsent", "pending", "ok", "reverted"}]]
    BY DEF SessionsInv, ChainOk, Receipts
  <2>2. \A s \in Sessions : row[s] # None => row[s] \in Blobs
    BY DEF SessionsInv, RowsOk, Good
  <2>3. \A h \in Handlers : \/ handler[h] = NoRequest
                            \/ /\ handler[h].step \in {"precheck", "persist", "relay", "write"}
                               /\ handler[h].session \in Sessions
                               /\ handler[h].copy \in Blobs
    BY DEF SessionsInv, HandlerOk, Good
  <2>4. CASE worker = NoSweep
    <3>1. worker.step = "idle" /\ worker.listed = <<>>
      BY <2>4 DEF NoSweep
    <3>2. DOMAIN <<>> = {}
      OBVIOUS
    <3> QED
      BY <2>1, <2>2, <2>3, <2>4, <3>1, <3>2 DEF TypeOK
  <2>5. CASE worker # NoSweep
    <3>1. /\ worker.step \in {"next", "commit", "wallet", "pending", "receipt", "upsert"}
          /\ worker.step \notin {"idle", "next"} => worker.copy \in Blobs /\ worker.session \in DOMAIN worker.listed
          /\ DOMAIN worker.listed \subseteq Sessions
          /\ \A s \in DOMAIN worker.listed : worker.listed[s] \in Blobs
      BY <2>5 DEF SessionsInv, SweepOk, StepOk, ListOk, Good
    <3> QED
      BY <2>1, <2>2, <2>3, <3>1 DEF TypeOK
  <2> QED
    BY <2>4, <2>5
<1> QED
  BY <1>1, SessionsInvariant, PTL

-----------------------------------------------------------------------------
(* A session identified once stays in the worker's care.  What could take it off the list is a  *)
(* copy from before its commit.  Such copies are only held by identify callbacks, and while one  *)
(* of them runs nobody else has the session.                                                     *)

(* Statuses from before the commit callback. *)
Off == {"awaiting_identity", "awaiting_commit", "precheck_rejected"}

(* The commit callback opens the finalize stage and extends the expiry, in one write. *)
Settled(b) ==
    /\ b.finalize # "none" => b.status \notin Off /\ b.commit # "none" /\ b.ttl = "long"
    /\ b.status = "finalized" => b.confirmed

InCare(b) == Settled(b) /\ b.finalize # "none"

RequestOk(r) ==
    r # NoRequest =>
        /\ Settled(r.copy)
        /\ r.step = "relay" => r.copy.finalize # "none"
        /\ r.step \in {"precheck", "persist"} => r.copy.finalize = "none"

Identifies(r) == r # NoRequest /\ (r.step \in {"precheck", "persist"} \/ r.copy.status \in Off)

(* Nobody but the requests in `but` has session s, and its commit is not known. *)
Untouched(s, but) ==
    /\ \A k \in Handlers \ but : handler[k].session # s
    /\ row[s] # None => row[s].commit = "none"
    /\ s \notin DOMAIN worker.listed

WorkerCares(w) ==
    /\ \A s \in DOMAIN w.listed : InCare(w.listed[s])
    /\ w.step \notin {"idle", "next"} => InCare(w.copy)

CareInv ==
    /\ calls \in [Sessions -> [{"identify", "commit", "finalize", "relay"} -> Nat]]
    /\ \A s \in Sessions : row[s] # None => Settled(row[s])
    /\ \A h \in Handlers : RequestOk(handler[h])
    /\ WorkerCares(worker)
    /\ \A s \in Sessions : calls[s]["identify"] = 0 => Untouched(s, {})
    /\ \A h \in Handlers : Identifies(handler[h]) => Untouched(handler[h].session, {h})

LEMMA InitCare == Init => CareInv
<1> SUFFICES ASSUME Init
             PROVE  CareInv
  OBVIOUS
<1>1. worker.step = "idle" /\ DOMAIN worker.listed = {}
  <2>1. DOMAIN <<>> = {}
    OBVIOUS
  <2> QED
    BY <2>1 DEF Init, NoSweep
<1>2. \A h \in Handlers : handler[h] = NoRequest /\ handler[h].session = None
  BY DEF Init, NoRequest
<1>3. \A s \in Sessions : row[s].commit = "none" /\ Settled(row[s])
  BY DEF Init, NewSession, Settled
<1>4. calls \in [Sessions -> [{"identify", "commit", "finalize", "relay"} -> Nat]]
  BY DEF Init
<1> QED
  BY <1>1, <1>2, <1>3, <1>4, TxNames DEF CareInv, RequestOk, Identifies, Untouched, WorkerCares

(* A session that is being identified, or was not yet, is one of Sessions. *)
LEMMA Identifying ==
    ASSUME SessionsInv, NEW h \in Handlers, handler[h] # NoRequest
    PROVE  handler[h].session \in Sessions
BY DEF SessionsInv, HandlerOk

LEMMA WorldCare ==
    ASSUME SessionsInv, CareInv, WorldNext
    PROVE  CareInv'
<1>1. CASE UNCHANGED <<row, handler, worker, calls>>
  BY <1>1 DEF CareInv, Untouched
<1>2. ASSUME NEW s \in Sessions, RowExpires(s)
      PROVE  CareInv'
  <2>1. UNCHANGED <<handler, worker, calls>> /\ \A q \in Sessions : row'[q] # None => row'[q] = row[q]
    BY <1>2 DEF RowExpires, SessionsInv
  <2>2. \A q \in Sessions : \A but : Untouched(q, but) => Untouched(q, but)'
    BY <2>1 DEF Untouched
  <2> QED
    BY <2>1, <2>2, Identifying DEF CareInv, Identifies
<1> QED
  BY <1>1, <1>2 DEF WorldNext, MineCommit, MineFinalize, FinalizeWindowOpens, FinalizeWindowCloses,
     CommitCleared, SendCommit, SendFinalize

(* A request of a session whose commit is known arrives. *)
LEMMA ArrivalCare ==
    ASSUME SessionsInv, CareInv, MaxIdentify <= 1, NEW h \in Handlers, NEW s \in Sessions,
           NEW kind \in {"commit", "finalize", "relay"}, NEW bound, Arrives(h, s, kind, bound),
           row[s].commit # "none", NEW step \in {"relay", "write"}, NEW b, Serve(h, step, s, b), InCare(b)
    PROVE  CareInv'
<1> DEFINE r == [step |-> step, session |-> s, copy |-> b]
<1>1. UNCHANGED <<row, worker>> /\ row[s] # None /\ calls' = [calls EXCEPT ![s][kind] = @ + 1]
  BY DEF Arrives
<1>2. /\ calls' \in [Sessions -> [{"identify", "commit", "finalize", "relay"} -> Nat]]
      /\ \A q \in Sessions : calls'[q]["identify"] = calls[q]["identify"]
  BY <1>1 DEF CareInv
<1>3. r.step = step /\ r.session = s /\ r.copy = b /\ handler' = [handler EXCEPT ![h] = r]
  BY DEF Serve
<1> HIDE DEF r
<1>4. handler'[h] = r /\ \A k \in Handlers \ {h} : handler'[k] = handler[k]
  BY <1>3 DEF SessionsInv
<1>5. RequestOk(r) /\ ~Identifies(r)
  BY <1>3 DEF RequestOk, Identifies, InCare, Settled
<1>6. \A q \in Sessions : \A but : Untouched(q, but) => q # s /\ Untouched(q, but)'
  BY <1>1, <1>3, <1>4 DEF Untouched
<1>7. \A k \in Handlers : Identifies(handler'[k]) => k # h /\ handler'[k] = handler[k] /\ handler[k].session \in Sessions
  BY <1>4, <1>5, Identifying DEF Identifies
<1>8. \A k \in Handlers : RequestOk(handler'[k])
  BY <1>4, <1>5 DEF CareInv
<1> QED
  BY <1>1, <1>2, <1>6, <1>7, <1>8 DEF CareInv

(* The one identify callback of a session arrives: nobody has the session. *)
LEMMA IdentifyCare ==
    ASSUME SessionsInv, CareInv, MaxIdentify <= 1, NEW h \in Handlers, NEW s \in Sessions, IdentifyCallback(h, s)
    PROVE  CareInv'
<1> DEFINE r == [step |-> "precheck", session |-> s, copy |-> row[s]]
<1>1. /\ UNCHANGED <<row, worker>> /\ row[s] # None /\ calls[s]["identify"] < MaxIdentify
      /\ calls' = [calls EXCEPT ![s]["identify"] = @ + 1]
  BY DEF IdentifyCallback, Arrives
<1>2. MaxIdentify \in Nat /\ calls[s]["identify"] \in Nat
  BY MintSessionsAssumption DEF CareInv
<1>3. calls[s]["identify"] = 0
  BY <1>1, <1>2
<1>4. Untouched(s, {}) /\ Settled(row[s]) /\ row[s].finalize = "none"
  BY <1>1, <1>3 DEF CareInv, Untouched, Settled
<1>5. /\ calls' \in [Sessions -> [{"identify", "commit", "finalize", "relay"} -> Nat]]
      /\ \A q \in Sessions : calls'[q]["identify"] = 0 => q # s /\ calls[q]["identify"] = 0
  BY <1>1, <1>2, <1>3 DEF CareInv
<1>6. r.step = "precheck" /\ r.session = s /\ r.copy = row[s] /\ handler' = [handler EXCEPT ![h] = r]
  BY DEF IdentifyCallback, Serve
<1> HIDE DEF r
<1>7. handler'[h] = r /\ \A k \in Handlers \ {h} : handler'[k] = handler[k]
  BY <1>6 DEF SessionsInv
<1>8. Untouched(s, {h})'
  BY <1>1, <1>4, <1>7 DEF Untouched
<1>9. \A q \in Sessions \ {s} : \A but : Untouched(q, but) => Untouched(q, but)'
  BY <1>1, <1>6, <1>7 DEF Untouched
<1>10. \A k \in Handlers \ {h} : Identifies(handler'[k]) => handler'[k] = handler[k] /\ handler[k].session \in Sessions \ {s}
  BY <1>4, <1>7, Identifying DEF Identifies, Untouched
<1>11. \A k \in Handlers : RequestOk(handler'[k])
  BY <1>4, <1>6, <1>7 DEF CareInv, RequestOk
<1> QED
  BY <1>1, <1>5, <1>6, <1>7, <1>8, <1>9, <1>10, <1>11 DEF CareInv

(* A request goes on with its session. *)
LEMMA ServingCare ==
    ASSUME SessionsInv, CareInv, NEW h \in Handlers, handler[h] # NoRequest, NEW r,
           handler' = [handler EXCEPT ![h] = r], UNCHANGED <<row, worker, calls>>,
           r.session = handler[h].session, RequestOk(r), Identifies(r) => Identifies(handler[h])
    PROVE  CareInv'
<1>1. handler'[h] = r /\ \A k \in Handlers \ {h} : handler'[k] = handler[k]
  BY DEF SessionsInv
<1>2. \A k \in Handlers : handler'[k].session = handler[k].session /\ RequestOk(handler'[k])
                          /\ (Identifies(handler'[k]) => Identifies(handler[k]))
  BY <1>1 DEF CareInv
<1>3. \A q : \A but : Untouched(q, but) => Untouched(q, but)'
  BY <1>2 DEF Untouched
<1> QED
  BY <1>2, <1>3 DEF CareInv

(* A request ends, writing its copy or not. *)
LEMMA EndingCare ==
    ASSUME SessionsInv, CareInv, NEW h \in Handlers, handler[h] # NoRequest, UNCHANGED <<worker, calls>>,
           handler' = [handler EXCEPT ![h] = NoRequest],
           \/ UNCHANGED row
           \/ row' = [row EXCEPT ![handler[h].session] = Stored(handler[h].session, handler[h].copy)]
    PROVE  CareInv'
<1> DEFINE s == handler[h].session
<1>1. handler'[h] = NoRequest /\ \A k \in Handlers \ {h} : handler'[k] = handler[k]
  BY DEF SessionsInv
<1>2. /\ \A q \in Sessions \ {s} : row'[q] = row[q]
      /\ s \in Sessions /\ Settled(handler[h].copy)
      /\ row'[s] # None => row'[s] = row[s] \/ row'[s] = handler[h].copy
  BY Identifying DEF SessionsInv, CareInv, RequestOk, Stored
<1>3. \A q \in Sessions : row'[q] # None => Settled(row'[q])
  BY <1>2 DEF CareInv
<1>4. NoRequest.session \notin Sessions /\ RequestOk(NoRequest) /\ ~Identifies(NoRequest)
  BY TxNames DEF NoRequest, RequestOk, Identifies
<1>5. \A q \in Sessions : \A but : Untouched(q, but) /\ h \notin but => Untouched(q, but)'
  BY <1>1, <1>2, <1>4 DEF Untouched
<1>6. \A k \in Handlers : Identifies(handler'[k]) => k # h /\ handler'[k] = handler[k] /\ handler[k].session \in Sessions
  BY <1>1, <1>4, Identifying DEF Identifies
<1>7. \A k \in Handlers : RequestOk(handler'[k])
  BY <1>1, <1>4 DEF CareInv
<1> HIDE DEF s
<1> QED
  BY <1>3, <1>5, <1>6, <1>7 DEF CareInv

LEMMA RelayAnswerCare ==
    ASSUME SessionsInv, CareInv, NEW h \in Handlers, RelayAnswers(h)
    PROVE  CareInv'
<1> DEFINE s == handler[h].session
           b == handler[h].copy
<1>1. handler[h] # NoRequest /\ handler[h].step = "relay"
  BY DEF RelayAnswers, NoRequest
<1>2. b \in Blobs /\ InCare(b)
  BY <1>1, Serving DEF Good, CareInv, RequestOk, InCare
<1>3. PICK answer \in RelayAnswer :
        Serve(h, "write", s, [(IF answer \in RelayTxs THEN RelaySubmitted(b, answer) ELSE b) EXCEPT !.ttl = "long"])
  BY DEF RelayAnswers
<1> DEFINE c == IF answer \in RelayTxs THEN RelaySubmitted(b, answer) ELSE b
           n == [c EXCEPT !.ttl = "long"]
           r == [step |-> "write", session |-> s, copy |-> n]
<1>4. InCare([b EXCEPT !.ttl = "long"])
  BY <1>2 DEF InCare, Settled, Blobs
<1>5. ASSUME NEW x
      PROVE  InCare([RelaySubmitted(b, x) EXCEPT !.ttl = "long"])
  BY <1>2 DEF InCare, Settled, Blobs, RelaySubmitted, Off
<1>6. InCare(n)
  BY <1>4, <1>5
<1> HIDE DEF c, n
<1>7. r.session = s /\ RequestOk(r) /\ ~Identifies(r)
  BY <1>6 DEF RequestOk, Identifies, InCare, Settled
<1>8. handler' = [handler EXCEPT ![h] = r] /\ UNCHANGED <<row, worker, calls>>
  BY <1>3 DEF Serve, RelayAnswers, n, c
<1> HIDE DEF r
<1> QED
  BY <1>1, <1>7, <1>8, ServingCare

LEMMA PrecheckCare ==
    ASSUME SessionsInv, CareInv, NEW h \in Handlers, PrecheckAnswers(h) \/ PersistFails(h)
    PROVE  CareInv'
<1> DEFINE s == handler[h].session
           b == handler[h].copy
<1>1. handler[h] # NoRequest /\ handler[h].step \in {"precheck", "persist"}
  BY DEF PrecheckAnswers, PersistFails, NoRequest
<1>2. b \in Blobs /\ Settled(b) /\ b.finalize = "none"
  BY <1>1, Serving, TxNames DEF Good, CareInv, RequestOk, NoRequest
<1>3. /\ Settled(CommitRequested(b)) /\ CommitRequested(b).finalize = "none"
      /\ Settled(PrecheckRejected(b))
  BY <1>2 DEF Settled, CommitRequested, PrecheckRejected, Blobs
<1>4. /\ UNCHANGED <<row, worker, calls>>
      /\ \/ Serve(h, "persist", s, CommitRequested(b))
         \/ Serve(h, "write", s, PrecheckRejected(b))
         \/ Serve(h, "write", s, b)
  BY DEF PrecheckAnswers, PersistFails
<1>5. Identifies(handler[h])
  BY <1>1 DEF Identifies
<1> HIDE DEF b
<1>6. ASSUME NEW step \in {"persist", "write"}, NEW c, Serve(h, step, s, c), Settled(c),
             step = "persist" => c.finalize = "none"
      PROVE  CareInv'
  <2> DEFINE r == [step |-> step, session |-> s, copy |-> c]
  <2>1. r.session = s /\ RequestOk(r) /\ handler' = [handler EXCEPT ![h] = r]
    BY <1>6 DEF RequestOk, Serve
  <2> HIDE DEF r
  <2> QED
    BY <1>1, <1>4, <1>5, <2>1, ServingCare
<1> QED
  BY <1>2, <1>3, <1>4, <1>6

LEMMA WebCare ==
    ASSUME SessionsInv, CareInv, MaxIdentify <= 1, WebNext
    PROVE  CareInv'
<1>1. PICK h \in Handlers :
        \/ \E s \in Sessions : \/ IdentifyCallback(h, s) \/ CommitCallback(h, s) \/ FinalizeRequest(h, s)
                               \/ \E x \in ManualTxs : FinalizeCallback(h, s, x)
        \/ PrecheckAnswers(h) \/ PersistFails(h) \/ RelayAnswers(h) \/ Write(h) \/ RequestLost(h)
  BY DEF WebNext
<1>2. \A s \in Sessions : row[s] # None => row[s] \in Blobs /\ Settled(row[s])
  BY DEF SessionsInv, RowsOk, Good, CareInv
<1>3. ASSUME NEW s \in Sessions, CommitCallback(h, s)
      PROVE  CareInv'
  <2>1. row[s] \in Blobs /\ row[s].commit # "none"
    BY <1>2, <1>3 DEF CommitCallback, Arrives
  <2>2. ASSUME NEW hash PROVE InCare(CommitSubmitted(row[s], hash))
    <3> DEFINE b == row[s]
               w == WithFinalize(b)
               f == [w EXCEPT !.mode = IF @ = "relayer" THEN "manual" ELSE @]
    <3> HIDE DEF b
    <3>1. /\ w = [status |-> w.status, ttl |-> w.ttl, commit |-> w.commit, commitTx |-> w.commitTx,
                  finalize |-> w.finalize, finalizeTx |-> w.finalizeTx, confirmed |-> w.confirmed, mode |-> w.mode]
          /\ w.finalize # "none"
      <4>1. b \in Blobs
        BY <2>1 DEF b
      <4> QED
        BY <4>1 DEF WithFinalize, Blobs
    <3> HIDE DEF w
    <3>2. /\ f = [status |-> f.status, ttl |-> f.ttl, commit |-> f.commit, commitTx |-> f.commitTx,
                  finalize |-> f.finalize, finalizeTx |-> f.finalizeTx, confirmed |-> f.confirmed, mode |-> f.mode]
          /\ f.finalize # "none"
      BY <3>1
    <3>3. FinalizePrepared(b) = f
      BY DEF FinalizePrepared, w
    <3> HIDE DEF f
    <3>4. InCare([f EXCEPT !.status = "commit_submitted", !.commit = "commit_submitted",
                           !.commitTx = hash, !.ttl = "long"])
      BY <3>2 DEF InCare, Settled, Off
    <3> QED
      BY <3>3, <3>4 DEF CommitSubmitted, b
  <2>3. Arrives(h, s, "commit", MaxCommit) /\ \E hash : Serve(h, "write", s, CommitSubmitted(row[s], hash))
    BY <1>3 DEF CommitCallback
  <2> QED
    BY <2>1, <2>2, <2>3, ArrivalCare
<1>4. ASSUME NEW s \in Sessions, FinalizeRequest(h, s)
      PROVE  CareInv'
  <2>1. InCare(row[s]) /\ row[s].commit # "none"
    BY <1>2, <1>4 DEF FinalizeRequest, Arrives, InCare, Settled
  <2>2. Arrives(h, s, "relay", MaxRelay) /\ Serve(h, "relay", s, row[s])
    BY <1>4 DEF FinalizeRequest
  <2> QED
    BY <2>1, <2>2, ArrivalCare
<1>5. ASSUME NEW s \in Sessions, NEW x \in ManualTxs, FinalizeCallback(h, s, x)
      PROVE  CareInv'
  <2>1. row[s] \in Blobs /\ InCare(row[s]) /\ row[s].commit # "none"
    BY <1>2, <1>5 DEF FinalizeCallback, Arrives, InCare, Settled
  <2>2. \A hash : InCare(FinalizeReported(row[s], hash))
    BY <2>1 DEF FinalizeReported, InCare, Settled, Blobs, Off
  <2>3. Arrives(h, s, "finalize", MaxFinalize) /\ \E hash : Serve(h, "write", s, FinalizeReported(row[s], hash))
    BY <1>5 DEF FinalizeCallback
  <2> QED
    BY <2>1, <2>2, <2>3, ArrivalCare
<1>6. CASE Write(h)
  <2>1. handler[h] # NoRequest
    BY <1>6 DEF Write, NoRequest
  <2> QED
    BY <1>6, <2>1, EndingCare DEF Write
<1>7. CASE RequestLost(h)
  <2>1. handler[h] # NoRequest
    BY <1>7 DEF RequestLost, NoRequest
  <2> QED
    BY <1>7, <2>1, EndingCare DEF RequestLost
<1> QED
  BY <1>1, <1>3, <1>4, <1>5, <1>6, <1>7, IdentifyCare, PrecheckCare, RelayAnswerCare

(* The worker goes on with what it has listed. *)
LEMMA WorkerStepCare ==
    ASSUME SessionsInv, CareInv, UNCHANGED <<handler, calls>>,
           row' = row \/ (worker.session \in DOMAIN worker.listed /\ InCare(worker.copy)
                          /\ row' = [row EXCEPT ![worker.session] = Stored(worker.session, worker.copy)]),
           WorkerCares(worker'),
           \A s \in DOMAIN worker'.listed : s \in DOMAIN worker.listed \/ (row[s] # None /\ row[s].commit # "none")
    PROVE  CareInv'
<1> DEFINE s == worker.session
<1>1. /\ row' = [q \in Sessions |-> row'[q]] \/ row' = row
      /\ \A q \in Sessions : q \notin DOMAIN worker.listed => row'[q] = row[q]
      /\ \A q \in Sessions : row'[q] # None => row'[q] = row[q] \/ Settled(row'[q])
  BY DEF SessionsInv, Stored, InCare
<1>2. \A q \in Sessions : \A but : Untouched(q, but) => Untouched(q, but)'
  BY <1>1 DEF Untouched
<1> QED
  BY <1>1, <1>2, Identifying DEF CareInv, Identifies

LEMMA WorkerCare ==
    ASSUME SessionsInv, CareInv, WorkerNext
    PROVE  CareInv'
<1>1. CASE BackendRestarts
  <2>1. DOMAIN <<>> = {}
    OBVIOUS
  <2>2. WorkerCares(NoSweep) /\ DOMAIN NoSweep.listed = {}
    BY <2>1 DEF WorkerCares, NoSweep
  <2> QED
    BY <1>1, <2>2, WorkerStepCare DEF BackendRestarts
<1>2. CASE Sweep
  <2> DEFINE candidates == {s \in Sessions : row[s] # None /\ row[s].status \in CandidateStatus}
             l == [s \in candidates |-> row[s]]
  <2>1. worker' = [step |-> "next", session |-> None, copy |-> None, listed |-> l, seen |-> "none"]
    BY <1>2 DEF Sweep, NoSweep
  <2>2. \A s \in candidates : InCare(row[s]) /\ row[s].commit # "none"
    BY DEF SessionsInv, RowsOk, Good, Coherent, CareInv, InCare, Settled
  <2>3. WorkerCares(worker') /\ DOMAIN worker'.listed = candidates
    BY <2>1, <2>2 DEF WorkerCares
  <2> QED
    BY <1>2, <2>2, <2>3, WorkerStepCare DEF Sweep
<1>3. ASSUME NEW s \in Sessions, TakeSession(s)
      PROVE  CareInv'
  <2> DEFINE b == WithFinalize(worker.listed[s])
             step == IF b.status = "commit_submitted" THEN "commit" ELSE "wallet"
  <2>1. worker.step = "next" /\ s \in DOMAIN worker.listed /\ UNCHANGED <<row, handler, calls>>
    BY <1>3 DEF TakeSession
  <2>2. /\ worker = [step |-> worker.step, session |-> worker.session, copy |-> worker.copy,
                     listed |-> worker.listed, seen |-> worker.seen]
    BY <2>1 DEF SessionsInv, SweepOk, NoSweep
  <2>3. InCare(b)
    BY <2>1 DEF CareInv, WorkerCares, InCare, WithFinalize
  <2>4. worker' = [worker EXCEPT !.session = s, !.copy = b, !.step = step]
    BY <1>3 DEF TakeSession
  <2> HIDE DEF b
  <2>5. worker'.listed = worker.listed /\ worker'.copy = b
    BY <2>2, <2>4
  <2> QED
    BY <2>1, <2>3, <2>5, WorkerStepCare DEF CareInv, WorkerCares
<1>4. ASSUME worker.step \in {"commit", "wallet", "pending", "receipt"}, UNCHANGED <<row, handler, calls>>,
             worker'.listed = worker.listed, InCare(worker'.copy)
      PROVE  CareInv'
  BY <1>4, WorkerStepCare DEF CareInv, WorkerCares
<1>5. ASSUME worker.step \in {"commit", "wallet", "pending", "receipt"}, UNCHANGED <<row, handler, calls>>,
             NEW b, WorkerWrites(b), InCare(b)
      PROVE  CareInv'
  <2>1. worker'.listed = worker.listed /\ worker'.copy = b
    BY <1>5, Working DEF WorkerWrites
  <2> QED
    BY <1>4, <1>5, <2>1
<1>6. worker.step \in {"commit", "wallet", "pending", "receipt"} => InCare(worker.copy) /\ worker.copy \in Blobs
  BY Working DEF CareInv, WorkerCares, StepOk, Good
<1>7. ASSUME InCare(worker.copy), worker.copy \in Blobs
      PROVE  /\ InCare(FinalizeExpired(worker.copy)) /\ InCare(FinalizeRetrying(worker.copy))
             /\ \A x : InCare(RelaySubmitted(worker.copy, x)) /\ InCare(CommitChecked(worker.copy, x))
             /\ \A x, seen : InCare(FinalizeChecked(worker.copy, x, seen))
             /\ InCare(HashCleared(worker.copy))
  <2> DEFINE b == worker.copy
  <2>1. InCare(b) /\ b \in Blobs
    BY <1>7
  <2> HIDE DEF b
  <2>2. InCare(FinalizeExpired(b)) /\ InCare(FinalizeRetrying(b)) /\ \A x : InCare(RelaySubmitted(b, x))
    BY <2>1 DEF InCare, Settled, Off, Blobs, FinalizeExpired, FinalizeRetrying, RelaySubmitted
  <2>3. \A x : InCare(CommitChecked(b, x))
    BY <2>1 DEF InCare, Settled, Off, Blobs, CommitChecked
  <2>4. \A x, seen : InCare(FinalizeChecked(b, x, seen))
    BY <2>1 DEF InCare, Settled, Off, Blobs, FinalizeChecked, FinalizeExpired, FinalizeRetrying
  <2>5. InCare(HashCleared(b))
    BY <2>1 DEF InCare, Settled, Blobs, HashCleared
  <2> QED
    BY <2>2, <2>3, <2>4, <2>5 DEF b
<1>8. CASE CheckCommit
  <2> DEFINE b == CommitChecked(worker.copy, CommitReceipt)
             step == IF b.status = "commit_confirmed" THEN "wallet" ELSE "upsert"
  <2>1. worker.step = "commit" /\ UNCHANGED <<row, handler, calls>> /\ worker' = [worker EXCEPT !.copy = b, !.step = step]
    BY <1>8 DEF CheckCommit
  <2>2. InCare(b)
    BY <1>6, <1>7, <2>1
  <2> HIDE DEF b
  <2>3. worker'.listed = worker.listed /\ worker'.copy = b
    BY <2>1, Working
  <2> QED
    BY <1>4, <2>1, <2>2, <2>3
<1>9. CASE ReadWallet
  <2>1. worker.step = "wallet" /\ UNCHANGED <<row, handler, calls>> /\ worker'.listed = worker.listed /\ worker'.copy = worker.copy
    BY <1>9, Working DEF ReadWallet
  <2> QED
    BY <1>4, <1>6, <2>1
<1>10. CASE HandlePendingFinalize
  <2>1. worker.step = "pending" /\ UNCHANGED <<row, handler, calls>>
    BY <1>10 DEF HandlePendingFinalize
  <2>2. \/ WorkerWrites(FinalizeExpired(worker.copy)) \/ WorkerWrites(FinalizeRetrying(worker.copy))
        \/ \E x : WorkerWrites(RelaySubmitted(worker.copy, x))
    BY <1>10 DEF HandlePendingFinalize, Relay
  <2> QED
    BY <1>5, <1>6, <1>7, <2>1, <2>2
<1>11. CASE HandleSubmittedFinalize
  BY <1>5, <1>6, <1>7, <1>11 DEF HandleSubmittedFinalize
<1>12. CASE SessionFails
  BY <1>5, <1>6, <1>12 DEF SessionFails
<1>13. CASE Upsert
  <2> DEFINE s    == worker.session
             rest == DOMAIN worker.listed \ {s}
             l    == [q \in rest |-> worker.listed[q]]
  <2>1. /\ worker.step = "upsert" /\ UNCHANGED <<handler, calls>>
        /\ row' = [row EXCEPT ![s] = Stored(s, worker.copy)] \/ row' = row
        /\ worker' = IF rest = {} THEN NoSweep ELSE [NoSweep EXCEPT !.step = "next", !.listed = l]
    BY <1>13 DEF Upsert
  <2>2. s \in DOMAIN worker.listed /\ InCare(worker.copy) /\ \A q \in rest : InCare(worker.listed[q])
    BY <2>1, Working DEF CareInv, WorkerCares
  <2>3. WorkerCares(worker') /\ \A q \in DOMAIN worker'.listed : q \in DOMAIN worker.listed
    <3>1. CASE rest = {}
      <4>1. DOMAIN <<>> = {}
        OBVIOUS
      <4> QED
        BY <2>1, <3>1, <4>1 DEF WorkerCares, NoSweep
    <3>2. CASE rest # {}
      <4>1. worker' = [step |-> "next", session |-> None, copy |-> None, listed |-> l, seen |-> "none"]
        BY <2>1, <3>2 DEF NoSweep
      <4> QED
        BY <2>2, <4>1 DEF WorkerCares
    <3> QED
      BY <3>1, <3>2
  <2> HIDE DEF l, rest
  <2> QED
    BY <2>1, <2>2, <2>3, WorkerStepCare
<1> QED
  BY <1>1, <1>2, <1>3, <1>8, <1>9, <1>10, <1>11, <1>12, <1>13 DEF WorkerNext

(* What a record may turn into while its commit can be finalized. *)
LEMMA CareIsOnTheList ==
    ASSUME NEW b, NEW t, NEW p, Good(b, t, p), ChainOk(t, p), p \in {"early", "open"}, Settled(b), b.status \notin Off
    PROVE  b.status \in CandidateStatus \/ b.confirmed
BY DEF Good, Blobs, Tells, ChainOk, Settled, Off, CandidateStatus

LEMMA StaysListed ==
    ASSUME SessionsInv, CareInv, [Next]_vars, NEW s \in Sessions, OnTheList(s), phase'[s] \in {"early", "open"}
    PROVE  OnTheList(s)'
<1>1. /\ row[s] # None /\ Good(row[s], tx[s], phase[s]) /\ Settled(row[s])
      /\ row[s].finalize # "none" /\ row[s].commit # "none" /\ row[s].ttl = "long"
  BY DEF OnTheList, SessionsInv, RowsOk, Good, Coherent, CareInv, Settled
<1>2. CASE row' = row
  BY <1>2 DEF OnTheList
<1>3. ASSUME NEW q \in Sessions, RowExpires(q)
      PROVE  OnTheList(s)'
  <2>1. q # s /\ row'[s] = row[s]
    BY <1>1, <1>3 DEF RowExpires, SessionsInv
  <2> QED
    BY <2>1 DEF OnTheList
<1>4. ASSUME NEW q \in Sessions, NEW b, Good(b, tx[q], phase[q]), Settled(b), UNCHANGED phase,
             q = s => b.status \notin Off, row' = [row EXCEPT ![q] = Stored(q, b)]
      PROVE  OnTheList(s)'
  <2>1. CASE q # s
    <3>1. row'[s] = row[s]
      BY <1>4, <2>1 DEF SessionsInv
    <3> QED
      BY <3>1 DEF OnTheList
  <2>2. CASE q = s
    <3>1. row'[s] = b
      BY <1>1, <1>4, <2>2 DEF SessionsInv, Stored
    <3>2. b.status \in CandidateStatus \/ b.confirmed
      BY <1>4, <2>2, CareIsOnTheList DEF SessionsInv
    <3>3. b # None
      BY <1>4, NoneIsNoRecord DEF Good
    <3> QED
      BY <3>1, <3>2, <3>3 DEF OnTheList
  <2> QED
    BY <2>1, <2>2
<1>5. ASSUME NEW h \in Handlers, Write(h)
      PROVE  OnTheList(s)'
  <2>1. handler[h] # NoRequest /\ UNCHANGED phase
    BY <1>5 DEF Write, NoRequest
  <2>2. /\ handler[h].session \in Sessions /\ Settled(handler[h].copy)
        /\ Good(handler[h].copy, tx[handler[h].session], phase[handler[h].session])
    BY <1>5, <2>1, Serving DEF Write, CareInv, RequestOk
  <2>3. handler[h].session = s => handler[h].copy.status \notin Off
    BY <1>1, <2>1 DEF CareInv, Identifies, Untouched
  <2> QED
    BY <1>4, <1>5, <2>1, <2>2, <2>3 DEF Write
<1>6. CASE Upsert
  <2>1. worker.step = "upsert" /\ UNCHANGED phase
    BY <1>6 DEF Upsert
  <2>2. /\ worker.session \in Sessions /\ Settled(worker.copy) /\ worker.copy.status \notin Off
        /\ Good(worker.copy, tx[worker.session], phase[worker.session])
    BY <2>1, Working DEF CareInv, WorkerCares, InCare, Settled, StepOk
  <2> QED
    BY <1>2, <1>4, <1>6, <2>1, <2>2 DEF Upsert
<1>7. \/ row' = row
      \/ \E q \in Sessions : RowExpires(q)
      \/ \E h \in Handlers : Write(h)
      \/ Upsert
  BY DEF Next, vars, WorkerNext, WebNext, WorldNext, Sweep, TakeSession, CheckCommit, ReadWallet,
     HandlePendingFinalize, HandleSubmittedFinalize, SessionFails, BackendRestarts, IdentifyCallback,
     CommitCallback, FinalizeCallback, FinalizeRequest, Arrives, PrecheckAnswers, PersistFails, RelayAnswers,
     RequestLost, MineCommit, MineFinalize, FinalizeWindowOpens, FinalizeWindowCloses, CommitCleared,
     SendCommit, SendFinalize
<1> QED
  BY <1>2, <1>3, <1>5, <1>6, <1>7

(* finalize_worker.py, storage.py and the callbacks: a session identified at most once is never taken *)
(* out of the worker's list while its commit can be finalized, whatever else repeats or races.        *)
THEOREM IdentifiedOnceStaysOnTheList ==
    ASSUME MaxIdentify <= 1
    PROVE  Spec => StaysOnTheList
<1>1. Init => CareInv
  BY InitCare
<1>2. SessionsInv /\ CareInv /\ [Next]_vars => CareInv'
  <2>1. SessionsInv /\ CareInv /\ UNCHANGED vars => CareInv'
    BY DEF vars, CareInv, Untouched
  <2> QED
    BY <2>1, WorldCare, WebCare, WorkerCare DEF Next
<1>3. SessionsInv /\ CareInv /\ [Next]_vars =>
        [\A s \in Sessions : OnTheList(s) /\ phase'[s] \in {"early", "open"} => OnTheList(s)']_vars
  BY StaysListed
<1> QED
  BY <1>1, <1>2, <1>3, SessionsInvariant, PTL DEF Spec, StaysOnTheList
=============================================================================
