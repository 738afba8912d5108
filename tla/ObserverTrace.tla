--------------------------- MODULE ObserverTrace ---------------------------
(***************************************************************************)
(* The trace command of src/observer: from the receipts of one transaction *)
(* that releases a sequence it tells which data each callback consumed,    *)
(* which callbacks were resumed yields, how long the first of them waited, *)
(* and how the sequence ended.  The explorer's answer does not say which   *)
(* data a callback consumed; the observer pairs them by block.  Here the   *)
(* transaction is run, hop by hop, the pairing is kept as `own`, and every *)
(* trace on the way is parsed.                                             *)
(***************************************************************************)
EXTENDS Integers, Sequences, FiniteSets, SequencesExt

CONSTANTS
  MaxHops,     \* bound on the callbacks of the transaction
  MaxBlock,    \* bound on the block height
  MaxQueued,   \* bound on the steps the transaction registers
  YieldBlocks, \* the height at which its yields time out
  MaxDelay     \* bound on how many blocks a callback runs after its data

ASSUME ObserverBounds ==
  /\ MaxHops \in Nat /\ MaxBlock \in Nat /\ MaxQueued \in Nat /\ YieldBlocks \in Nat
  /\ MaxDelay \in Nat

CallbackNames == {"on_step_resumed", "on_pre_gate_checked",
                  "on_last_finished_polled", "on_step_resolved"}
EventNames == {"sequence_halted", "sequence_completed", "run_finished", "step_resumed",
               "pre_gate_checked", "step_resolved_ok", "step_resolved_err"}

\* One callback and the data it waits for.  The ranks order the rows of one block and
\* stand for the receipt ids, which mean nothing.
Ranks == 1..5
Hop == [method: CallbackNames, account: {"wallet", "adapter"}, resume: BOOLEAN,
        data_block: 1..MaxBlock, block: 1..MaxBlock, rank: Ranks,
        data_rank: Ranks, events: Seq(EventNames)]

VARIABLES
  hops,    \* the callbacks so far, as they came about
  phase,   \* what the driver of the sequence waits for, or how the sequence ended
  at,      \* the height of the driver's last callback
  queued,  \* registered steps whose yields are not resumed
  expired  \* their yields have timed out

traceVars == <<hops, phase, at, queued, expired>>

Phases == {"resume", "gate", "poll", "target", "completed", "halted", "failed"}

TraceTypeOK ==
  /\ hops \in Seq(Hop) /\ phase \in Phases /\ at \in 1..MaxBlock
  /\ queued \in 0..MaxQueued /\ expired \in BOOLEAN

\* The transaction registers its steps in block 1 and resumes the first.
TraceInit ==
  /\ hops = <<>> /\ phase = "resume" /\ at = 1 /\ queued \in 1..MaxQueued
  /\ expired = FALSE

----------------------------------------------------------------------------
(* The transaction.                                                        *)

SameBlock(block) == {i \in DOMAIN hops : hops[i].block = block}
SameDataBlock(block) == {i \in DOMAIN hops : hops[i].data_block = block}

\* The first row of a block takes the middle rank, others come on either side.
FreeRanks(taken) == IF taken = {} THEN {3} ELSE Ranks \ taken

\* Data lands in a block and its callback runs there, or later in a busy shard.
Consumes(method, account, resume, data_block, events) ==
  \E block \in data_block..(data_block + MaxDelay) :
  \E rank \in FreeRanks({hops[i].rank : i \in SameBlock(block)}),
     data_rank \in FreeRanks({hops[i].data_rank : i \in SameDataBlock(data_block)}) :
    /\ Len(hops) < MaxHops /\ block <= MaxBlock
    /\ hops' = Append(hops, [method |-> method, account |-> account, resume |-> resume,
                             data_block |-> data_block, block |-> block, rank |-> rank,
                             data_rank |-> data_rank, events |-> events])

\* The driver's next callback: time runs for the queued yields as well.
Drives(method, account, resume, events, next) ==
  \E wait \in 1..MaxBlock :
    /\ at + wait <= MaxBlock
    /\ expired => at + wait >= YieldBlocks
    /\ queued > 0 => at + wait <= YieldBlocks
    /\ Consumes(method, account, resume, at + wait, events)
    /\ at' = hops'[Len(hops')].block
    /\ phase' = next
    /\ UNCHANGED expired

Resumes ==
  /\ phase = "resume" /\ queued > 0
  /\ queued' = queued - 1
  /\ \/ \E next \in {"gate", "poll", "target"} :
          Drives("on_step_resumed", "wallet", TRUE, <<"step_resumed">>, next)
     \/ Drives("on_step_resumed", "wallet", TRUE,
               <<"step_resumed", "run_finished", "sequence_halted">>, "halted")

GateAnswers ==
  /\ phase = "gate"
  /\ UNCHANGED queued
  /\ \/ \E next \in {"poll", "target"} :
          Drives("on_pre_gate_checked", "wallet", FALSE, <<"pre_gate_checked">>, next)
     \/ Drives("on_pre_gate_checked", "wallet", FALSE,
               <<"pre_gate_checked", "run_finished", "sequence_halted">>, "halted")

\* A callback of an adapter on the way to the target.
AdapterPolls ==
  /\ phase = "poll"
  /\ Drives("on_last_finished_polled", "adapter", FALSE, <<>>, "target")
  /\ UNCHANGED queued

\* A step that resolved halts the sequence when the next one's yield has timed out
\* and its callback is still to run.
Resolves ==
  /\ phase = "target"
  /\ UNCHANGED queued
  /\ \/ queued > 0 /\ Drives("on_step_resolved", "wallet", FALSE,
                             <<"step_resolved_ok">>, "resume")
     \/ queued > 0 /\ Drives("on_step_resolved", "wallet", FALSE,
                             <<"step_resolved_ok", "run_finished", "sequence_halted">>,
                             "halted")
     \/ queued = 0 /\ Drives("on_step_resolved", "wallet", FALSE,
                             <<"step_resolved_ok", "sequence_completed", "run_finished">>,
                             "completed")
     \/ Drives("on_step_resolved", "wallet", FALSE,
               <<"run_finished", "step_resolved_err">>, "failed")

\* The yields of the steps still queued time out, all in one block, each after its
\* own callback.
TimesOut ==
  /\ queued > 0 /\ at <= YieldBlocks
  /\ Consumes("on_step_resumed", "wallet", TRUE, YieldBlocks,
              <<"run_finished", "sequence_halted">>)
  /\ queued' = queued - 1
  /\ expired' = TRUE
  /\ UNCHANGED <<phase, at>>

TraceNext == Resumes \/ GateAnswers \/ AdapterPolls \/ Resolves \/ TimesOut

TraceSpec == TraceInit /\ [][TraceNext]_traceVars

----------------------------------------------------------------------------
(* The observer.                                                           *)

\* parse_trace: rows of the callbacks and of the data, and both in one order.
ActionRows ==
  [i \in DOMAIN hops |-> [kind |-> "action", own |-> i, block |-> hops[i].block,
                          rank |-> hops[i].rank, account |-> hops[i].account,
                          method |-> hops[i].method, events |-> hops[i].events]]
DataRows ==
  [i \in DOMAIN hops |-> [kind |-> "data", own |-> i, block |-> hops[i].data_block,
                          rank |-> hops[i].data_rank, account |-> hops[i].account,
                          resume |-> hops[i].resume]]

RowBefore(r, s) == r.block < s.block \/ (r.block = s.block /\ r.rank < s.rank)

\* A stable sort: rows that come before go first, of a tie the earlier one.
Sorted(rows) ==
  LET GoesFirst(i, j) == \/ RowBefore(rows[i], rows[j])
                         \/ i < j /\ ~RowBefore(rows[j], rows[i])
      place == [j \in DOMAIN rows |->
                 Cardinality({i \in DOMAIN rows : GoesFirst(i, j)}) + 1]
  IN [k \in DOMAIN rows |-> rows[CHOOSE j \in DOMAIN rows : place[j] = k]]

SortedRows == Sorted(ActionRows \o DataRows)

\* The events as the explorer lists their receipts, an order that the observer keeps:
\* block by block.
Events == LET rows == Sorted(ActionRows) IN FlattenSeq([i \in DOMAIN rows |-> rows[i].events])

\* correlate_resumes: the better of two candidates lies in a higher block or, in the
\* same one, is of the expected kind.
Expected(r, method) == r.resume = (method = "on_step_resumed")

Bad_Score_by_block_only(r, method) == 2 * r.block

Score(r, method) == 2 * r.block + (IF Expected(r, method) THEN 1 ELSE 0)

Candidates(rows, i, claimed) ==
  {j \in DOMAIN rows : /\ rows[j].kind = "data" /\ rows[j].account = rows[i].account
                       /\ rows[j].block <= rows[i].block
                       /\ j \notin claimed}

BestOf(rows, i, candidates) ==
  CHOOSE j \in candidates : \A k \in candidates :
    \/ Score(rows[j], rows[i].method) > Score(rows[k], rows[i].method)
    \/ Score(rows[j], rows[i].method) = Score(rows[k], rows[i].method) /\ j <= k

\* A callback row claims the best data row that is left.
claim(rows, claims, i) ==
  LET candidates == Candidates(rows, i, {claims[k] : k \in DOMAIN rows})
  IN  IF rows[i].kind = "data" \/ candidates = {} THEN claims
      ELSE [claims EXCEPT ![i] = BestOf(rows, i, candidates)]

\* The data row that each callback row claims, or 0.
correlate_resumes(rows) ==
  FoldLeftDomain(LAMBDA claims, i : claim(rows, claims, i), [i \in DOMAIN rows |-> 0], rows)

is_yield_resume(rows, claims, i) ==
  claims[i] # 0 /\ rows[i].method = "on_step_resumed" /\ rows[claims[i]].resume

\* In blocks; the steps were registered in block 1.
yield_resume_latency(rows, claims) ==
  LET resumed == {i \in DOMAIN rows : is_yield_resume(rows, claims, i)}
  IN  IF resumed = {} THEN -1
      ELSE rows[CHOOSE i \in resumed : \A k \in resumed : i <= k].block - 1

IsTerminal(e) == e \in {"sequence_completed", "sequence_halted"}

Bad_build_outcome_banner_last_event(events) ==
  IF events # <<>> /\ IsTerminal(Last(events)) THEN Last(events) ELSE "none"

build_outcome_banner(events) ==
  LET terminal == {i \in DOMAIN events : IsTerminal(events[i])}
  IN  IF terminal = {} THEN "none" ELSE events[Max(terminal)]

----------------------------------------------------------------------------
(* Properties.                                                             *)

\* No other data reaches the account of a callback between its own data and it.
Undisturbed ==
  \A i, j \in DOMAIN hops :
    hops[i].account = hops[j].account
      => ~(hops[i].data_block < hops[j].data_block /\ hops[j].data_block <= hops[i].block)

\* The pairing by block is right: unless other data overtook a callback, each
\* callback is paired with data that arrived for it or with a twin (same account,
\* block and kind), so that the resumed yields, and the wait of the first, are those
\* of the transaction, timeouts among them and whatever the receipt ids are.
PairingIsRight ==
  LET rows == SortedRows
      claims == correlate_resumes(rows)
      starts == {hops[i].block : i \in {k \in DOMAIN hops : hops[k].resume}}
  IN
  Undisturbed =>
    /\ \A i \in DOMAIN rows : rows[i].kind = "action" =>
         /\ claims[i] # 0
         /\ rows[claims[i]].block = hops[rows[i].own].data_block
         /\ rows[claims[i]].resume = hops[rows[i].own].resume
         /\ is_yield_resume(rows, claims, i) <=> hops[rows[i].own].resume
    /\ \A b \in starts : yield_resume_latency(rows, claims) <= b - 1
    /\ starts # {} => yield_resume_latency(rows, claims) + 1 \in starts

\* The outcome banner tells how a sequence ended of which no queued step timed out:
\* completed, or halted before its target was called.  It is blank while the
\* sequence runs, and after a target failed, for which the contract emits neither of
\* the two events the banner looks for.
BannerTellsEnd ==
  ~expired =>
    build_outcome_banner(Events) =
      CASE phase = "completed" -> "sequence_completed"
        [] phase = "halted" -> "sequence_halted"
        [] OTHER -> "none"
=============================================================================
