------------------------------ MODULE DPEngine ------------------------------
(***************************************************************************)
(* Data-parallel attention: one process per replica with a scheduler and a *)
(* cache of its own, and a frontend that routes requests to them, gives    *)
(* them global ids and steps all replicas together, because their experts  *)
(* meet in a collective operation.  engine/dp_engine.py, engine/dp_step.py *)
(* and what a replica (engine/llm_engine.py, engine/chain_cache.py) does   *)
(* to the identities of requests and chains.                               *)
(*                                                                         *)
(* A call that addresses one replica is one action: the frontend sends,    *)
(* the replica runs it and the frontend takes the reply before anything    *)
(* else it does.  Calls that address every replica are cut where the       *)
(* replicas run apart.  A call that a replica refuses changes nothing but  *)
(* what is modelled here, and sends no snapshot.  Left out: texts, loads   *)
(* and prefix snapshots, which are only reported, and start-up.            *)
(***************************************************************************)
EXTENDS Integers, Sequences, FiniteSets, SequencesExt

CONSTANTS
  None,
  NumRanks,       \* data_parallel_size
  MaxIds,         \* bound: sequence ids of a replica, and global ids
  MaxChains,      \* bound: chain ids handed out
  MaxTombstones,  \* chain_cache_max_tombstones
  Modes,          \* resolved_prefix_cache_mode: "chain" or "radix"
  MaxFaults       \* bound: replica errors and deaths

Ranks  == 0..(NumRanks - 1)
Ids    == 1..MaxIds
Chains == 1..MaxChains

ASSUME DPAssumption ==
  /\ {NumRanks, MaxIds, MaxChains, MaxTombstones} \subseteq Nat \ {0}
  /\ MaxFaults \in Nat
  /\ Modes \subseteq {"chain", "radix"}
  /\ None \notin Nat \cup (Ranks \X Ids)

VARIABLES
  mode,       \* the prefix cache mode, fixed at start-up
  front,      \* the tables of the frontend
  worker,     \* per replica: its requests and chains, and its pipe
  call,       \* the call to every replica in progress
  engine,     \* "up"; "closed" after _terminate; "stale" after a reply to another call
  nextChain,
  faults,
  replaced    \* history: identities whose chain was recreated

vars == <<mode, front, worker, call, engine, nextChain, faults, replaced>>

NoCall == [kind |-> "none", pending |-> {}, got |-> [r \in Ranks |-> None]]

(* owners, ids, chain_owners, chain_seq_ids, chain_sequences, active and   *)
(* next are the attributes of DPAttentionEngine (ids is _global_ids).      *)
NewFront == [owners |-> [g \in Ids |-> None], ids |-> [p \in Ranks \X Ids |-> None],
             chain_owners |-> [c \in Chains |-> None], chain_seq_ids |-> {},
             chain_sequences |-> [c \in Chains |-> None],
             active |-> [r \in Ranks |-> {}], next |-> 1]

(* run: the sequences in the scheduler; rec: the sequence of a resident    *)
(* chain (idle when it does not run); at: where the replica is in a call   *)
(* to all; out: replies the frontend has not read.                         *)
NewWorker == [alive |-> TRUE, run |-> {}, rec |-> [c \in Chains |-> None], tomb |-> <<>>,
              next |-> 1, at |-> "idle", out |-> <<>>]

Init ==
  /\ mode \in Modes
  /\ front = NewFront /\ worker = [r \in Ranks |-> NewWorker]
  /\ call = NoCall /\ engine = "up" /\ nextChain = 1 /\ faults = 0 /\ replaced = {}

-----------------------------------------------------------------------------
(* A replica *)

Known(W) == {c \in Chains : W.rec[c] # None} \cup ToSet(W.tomb)

\* index.invalidate and index.evict of the chains of a sequence in turn: the
\* records give way to tombstones, and the oldest tombstones are forgotten.
Bury(W, gone) ==
  LET tomb == W.tomb \o gone
  IN  [W EXCEPT !.rec = [c \in Chains |-> IF c \in ToSet(gone) THEN None ELSE W.rec[c]],
                !.tomb = IF Len(tomb) <= MaxTombstones THEN tomb
                         ELSE SubSeq(tomb, Len(tomb) - MaxTombstones + 1, Len(tomb))]

\* What the replica may have evicted to make room, c excepted.
Evicted(W, c) ==
  LET idle == {d \in Chains \ {c} : W.rec[d] # None /\ W.rec[d] \notin W.run}
  IN  {Bury(W, gone) : gone \in UNION {SetToSeqs(S) : S \in SUBSET idle}}

-----------------------------------------------------------------------------
(* The frontend's tables *)

\* The tables without the ids of a set.
Forget(F, gone) ==
  [F EXCEPT !.owners = [g \in Ids |-> IF g \in gone THEN None ELSE F.owners[g]],
            !.ids = [p \in Ranks \X Ids |-> IF \E g \in gone : F.owners[g] = p
                                            THEN None ELSE F.ids[p]]]

\* Mutant of ReleaseIdentity: forgets the id of a turn whose chain stays.
ReleaseAlways(F, G) == Forget(F, {g \in Ids : g \in G /\ F.owners[g] # None})

\* _release_request_identity of each id in G: the id of a chain outlives its turns.
ReleaseIdentity(F, G) ==
  Forget(F, {g \in Ids : g \in G /\ F.owners[g] # None /\ g \notin F.chain_seq_ids})

\* The chains the replica no longer knows.
ExpireChains(F, gone) ==
  LET G == {F.chain_sequences[c] : c \in gone}
  IN  ReleaseIdentity([F EXCEPT
        !.chain_owners = [c \in Chains |-> IF c \in gone THEN None ELSE F.chain_owners[c]],
        !.chain_sequences =
          [c \in Chains |-> IF c \in gone THEN None ELSE F.chain_sequences[c]],
        !.chain_seq_ids = @ \ G], G)

\* _receive: the chain snapshot of replica r.
Heard(F, r, known) ==
  ExpireChains(F, {c \in Chains : F.chain_owners[c] = r /\ c \notin known})

\* A request or chain that is over for good.
Dropped(F, r, g) ==
  ReleaseIdentity([F EXCEPT !.active[r] = @ \ {g}, !.chain_seq_ids = @ \ {g}], {g})

\* admit_request after the replica's answer: the id of a resumed sequence stays.
Registered(F, r, s, c) ==
  LET g == IF F.ids[<<r, s>>] = None THEN F.next ELSE F.ids[<<r, s>>]
      G == [F EXCEPT !.next = IF g = F.next THEN @ + 1 ELSE @,
                     !.ids[<<r, s>>] = g, !.owners[g] = <<r, s>>, !.active[r] = @ \cup {g}]
  IN  IF c = None THEN G
      ELSE [G EXCEPT !.chain_owners[c] = r, !.chain_seq_ids = @ \cup {g},
                     !.chain_sequences[c] = g]

-----------------------------------------------------------------------------
(* Calls that address one replica *)

Quiet(r) == worker[r].at = "idle" /\ worker[r].out = <<>>

CanCall(r) == engine = "up" /\ call.kind = "none" /\ worker[r].alive

\* The replica runs the call and its reply is the next one in the pipe.
Answers(r, W, F) ==
  /\ CanCall(r) /\ Quiet(r)
  /\ worker' = [worker EXCEPT ![r] = W]
  /\ front' = F
  /\ UNCHANGED <<mode, call, engine, faults>>

\* The least loaded replicas.
Candidates ==
  LET Load(q) == Cardinality(front.active[q])
  IN  {q \in Ranks : \A p \in Ranks : Load(q) <= Load(p)}

\* Where a request without a chain goes: the first candidate; in the radix mode
\* the one with the longest match, for which all of them are asked first.  The
\* call reads only, and an error of one of them comes after every reply was
\* read: it is part of the admission unless a candidate is dead (MatchMeetsDead).
Route(r) ==
  IF mode = "radix" THEN r \in Candidates /\ \A q \in Candidates : worker[q].alive /\ Quiet(q)
  ELSE r = Min(Candidates)

AdmitNew(r) ==
  /\ Route(r)
  /\ worker[r].next <= MaxIds /\ front.next <= MaxIds
  /\ mode = "chain" => nextChain <= MaxChains
  /\ LET s == worker[r].next
         c == IF mode = "chain" THEN nextChain ELSE None
     IN  \E E \in Evicted(worker[r], c) :
           LET W == [E EXCEPT !.run = @ \cup {s}, !.next = @ + 1,
                              !.rec = IF c = None THEN @ ELSE [@ EXCEPT ![c] = s]]
           IN  Answers(r, W, Registered(Heard(front, r, Known(W)), r, s, c))
  /\ nextChain' = IF mode = "chain" THEN nextChain + 1 ELSE nextChain
  /\ UNCHANGED replaced

\* The next turn of a chain goes to the replica that has it.
AdmitResumed(c) ==
  LET r == front.chain_owners[c]
      s == worker[r].rec[c]
  IN  /\ r # None /\ s # None /\ s \notin worker[r].run
      /\ front.next <= MaxIds
      /\ \E E \in Evicted(worker[r], c) :
           LET W == [E EXCEPT !.run = @ \cup {s}]
           IN  Answers(r, W, Registered(Heard(front, r, Known(W)), r, s, c))
      /\ UNCHANGED <<nextChain, replaced>>

\* A prompt that does not extend the chain: a new chain takes its sequence id
\* over, or is refused when the old one is already gone (and no snapshot tells).
AdmitRecreated(c) ==
  LET r == front.chain_owners[c]
      s == worker[r].rec[c]
      d == nextChain
  IN  /\ r # None /\ s # None /\ s \notin worker[r].run
      /\ nextChain <= MaxChains /\ front.next <= MaxIds
      /\ \/ /\ \E E \in Evicted(Bury(worker[r], <<c>>), d) :
                 LET W == [E EXCEPT !.run = @ \cup {s}, !.rec[d] = s]
                 IN  Answers(r, W, Registered(Heard(front, r, Known(W)), r, s, d))
            /\ nextChain' = nextChain + 1 /\ replaced' = replaced \cup {<<r, s>>}
         \/ /\ Answers(r, Bury(worker[r], <<c>>), front)
            /\ UNCHANGED <<nextChain, replaced>>

\* The replica without sequence s and its chain.
Without(W, s) ==
  LET own == {c \in Chains : W.rec[c] = s}
  IN  [Bury(W, SetToSeq(own)) EXCEPT !.run = @ \ {s}]

AbortRequest(g) ==
  /\ front.owners[g] # None
  /\ LET r == front.owners[g][1]
         W == Without(worker[r], front.owners[g][2])
     IN  Answers(r, W, Dropped(Heard(front, r, Known(W)), r, g))
  /\ UNCHANGED <<nextChain, replaced>>

\* discard_chain with the id its client holds, and invalidate_chain with the
\* one on file.
DiscardChain(c, g) ==
  /\ front.owners[g] # None
  /\ LET r == front.owners[g][1]
         s == front.owners[g][2]
         W == Without(worker[r], s)
     IN  /\ front.chain_owners[c] = r /\ worker[r].rec[c] = s
         /\ Answers(r, W, Dropped(Heard(front, r, Known(W)), r, g))
  /\ UNCHANGED <<nextChain, replaced>>

\* invalidate_chain of a chain whose id is gone goes past the tables.
InvalidateUnowned(c) ==
  LET g == front.chain_sequences[c]
      r == IF front.chain_owners[c] = None THEN 0 ELSE front.chain_owners[c]
      W == Bury(worker[r], <<c>>)
  IN  /\ g # None => front.owners[g] = None
      /\ worker[r].rec[c] # None
      /\ Answers(r, W, Heard(front, r, Known(W)))
      /\ UNCHANGED <<nextChain, replaced>>

\* A call that only reads, or finds nothing to do, still brings a snapshot.
Read(r) ==
  /\ Answers(r, worker[r], Heard(front, r, Known(worker[r])))
  /\ UNCHANGED <<nextChain, replaced>>

\* A call to a replica whose pipe still holds the reply to an earlier call.
ReadsOldReply(r) ==
  /\ CanCall(r) /\ ~Quiet(r)
  /\ engine' = "stale"
  /\ UNCHANGED <<mode, front, worker, call, nextChain, faults, replaced>>

-----------------------------------------------------------------------------
(* Calls that address every replica: step, and the control calls *)

\* _terminate: every process group is killed and the call raises.
Terminated ==
  /\ engine' = "closed"
  /\ worker' = [r \in Ranks |-> [worker[r] EXCEPT !.alive = FALSE, !.at = "idle", !.out = <<>>]]
  /\ call' = NoCall
  /\ UNCHANGED <<mode, front, nextChain, faults, replaced>>

Dead == {r \in Ranks : ~worker[r].alive}

\* _call sends to the replicas in turn.  The first dead one raises: a step
\* then ends the server, which closes the engine, while the replicas before
\* it carry a control call out for nobody.
CallAll(kind) ==
  /\ engine = "up" /\ call.kind = "none" /\ \A r \in Ranks : Quiet(r)
  /\ kind = "step" => \E r \in Ranks : front.active[r] # {}
  /\ IF kind = "step" /\ Dead # {} THEN Terminated
     ELSE /\ worker' = [r \in Ranks |-> IF \A q \in Dead : r < q
                                        THEN [worker[r] EXCEPT !.at = kind] ELSE worker[r]]
          /\ call' = IF Dead = {} THEN [NoCall EXCEPT !.kind = kind, !.pending = Ranks] ELSE NoCall
          /\ UNCHANGED <<mode, front, engine, nextChain, faults, replaced>>

\* The match call of an admission goes out the same way: the candidates before
\* the first dead one answer it for nobody.
MatchMeetsDead ==
  LET dead == Candidates \cap Dead
  IN  /\ mode = "radix" /\ engine = "up" /\ call.kind = "none"
      /\ dead # {} /\ \A r \in Candidates : Quiet(r)
      /\ worker' = [r \in Ranks |-> IF r \in Candidates /\ \A q \in dead : r < q
                                    THEN [worker[r] EXCEPT !.at = "control"] ELSE worker[r]]
      /\ UNCHANGED <<mode, front, call, engine, nextChain, faults, replaced>>

Moves(r, W) ==
  /\ worker[r].alive
  /\ worker' = [worker EXCEPT ![r] = W]
  /\ UNCHANGED <<mode, front, call, engine, nextChain, replaced>>

Reply(W, ok, rows, done) ==
  [W EXCEPT !.at = "idle",
            !.out = Append(@, [ok |-> ok, known |-> Known(W), rows |-> rows, done |-> done])]

ReplyControl(r) ==
  /\ worker[r].at = "control"
  /\ \E ok \in BOOLEAN : Moves(r, Reply(worker[r], ok, {}, {}))
  /\ UNCHANGED faults

\* schedule() may evict; an idle replica joins with an empty batch.
EnterStep(r) ==
  /\ worker[r].at = "step"
  /\ \E E \in Evicted(worker[r], None) : Moves(r, [E EXCEPT !.at = "meet"])
  /\ UNCHANGED faults

\* coordinate_dp_step: the collective is over for all when all have come.
Collective ==
  /\ \A r \in Ranks : worker[r].alive /\ worker[r].at = "meet"
  /\ worker' = [r \in Ranks |-> [worker[r] EXCEPT !.at = "ran"]]
  /\ UNCHANGED <<mode, front, call, engine, nextChain, faults, replaced>>

\* Some of the running requests get a token, some of those finish.
LeaveStep(r) ==
  /\ worker[r].at = "ran"
  /\ \E rows \in SUBSET worker[r].run : \E done \in SUBSET rows :
       Moves(r, Reply([worker[r] EXCEPT !.run = @ \ done], TRUE, rows, done))
  /\ UNCHANGED faults

\* The step raises on one replica, before or after the collective.
StepRaises(r) ==
  /\ worker[r].at \in {"step", "ran"} /\ faults < MaxFaults
  /\ Moves(r, Reply(worker[r], FALSE, {}, {}))
  /\ faults' = faults + 1

\* A replica's process ends.
Dies(r) ==
  /\ faults < MaxFaults /\ engine = "up"
  /\ Moves(r, [worker[r] EXCEPT !.alive = FALSE, !.at = "idle"])
  /\ faults' = faults + 1

\* Mutant of Takes: an error is raised before the other replies are read.
TakesErrorAtOnce(r, reply, rest) ==
  IF ~reply.ok /\ call.kind = "step" THEN Terminated
  ELSE /\ worker' = rest
       /\ front' = IF reply.ok THEN Heard(front, r, reply.known) ELSE front
       /\ call' = IF reply.ok THEN [call EXCEPT !.pending = @ \ {r}, !.got[r] = reply] ELSE NoCall
       /\ UNCHANGED <<mode, engine, nextChain, faults, replaced>>

\* Mutant of Takes: a failed step waits for the other replicas as well.
TakesStepError(r, reply, rest) ==
  /\ worker' = rest
  /\ front' = IF reply.ok THEN Heard(front, r, reply.known) ELSE front
  /\ call' = [call EXCEPT !.pending = @ \ {r}, !.got[r] = reply]
  /\ UNCHANGED <<mode, engine, nextChain, faults, replaced>>

\* An error of a step is fatal at once (peers may be in the collective); that
\* of a control call is kept until every reply was read.
Takes(r, reply, rest) ==
  IF ~reply.ok /\ call.kind = "step" THEN Terminated
  ELSE /\ worker' = rest
       /\ front' = IF reply.ok THEN Heard(front, r, reply.known) ELSE front
       /\ call' = [call EXCEPT !.pending = @ \ {r}, !.got[r] = reply]
       /\ UNCHANGED <<mode, engine, nextChain, faults, replaced>>

Receive(r) ==
  /\ r \in call.pending /\ worker[r].out # <<>>
  /\ Takes(r, Head(worker[r].out), [worker EXCEPT ![r].out = Tail(@)])

Ready(r) == worker[r].out # <<>> \/ ~worker[r].alive

\* The end of file of a dead replica, or a look at the processes while nothing
\* is ready.
NoticeDeath ==
  /\ call.pending # {}
  /\ \/ \E r \in call.pending : ~worker[r].alive /\ worker[r].out = <<>>
     \/ Dead # {} /\ \A r \in call.pending : ~Ready(r)
  /\ Terminated

\* The deadline of SPARSEENGINE_DP_RPC_TIMEOUT_S passes.
Timeout ==
  /\ call.pending # {} /\ \A r \in call.pending : ~Ready(r)
  /\ Terminated

\* step() after the replies: rows get their global ids, finished requests leave.
StepReturns ==
  LET done == {p \in Ranks \X Ids : p[2] \in call.got[p[1]].done}
      active == [r \in Ranks |-> {g \in front.active[r] :
                                    \A p \in done : p[1] = r => front.ids[p] # g}]
  IN  /\ call.kind = "step" /\ call.pending = {}
      /\ IF \E r \in Ranks : \E s \in call.got[r].rows : front.ids[<<r, s>>] = None
         THEN Terminated
         ELSE /\ front' = ReleaseIdentity([front EXCEPT !.active = active],
                                          {front.ids[p] : p \in done})
              /\ call' = NoCall
              /\ UNCHANGED <<mode, worker, engine, nextChain, faults, replaced>>

ControlReturns ==
  /\ call.kind = "control" /\ call.pending = {}
  /\ call' = NoCall
  /\ UNCHANGED <<mode, front, worker, engine, nextChain, faults, replaced>>

\* exit(), or a replica that dies inside a call to it alone.
Exit == engine = "up" /\ call.kind = "none" /\ Terminated

-----------------------------------------------------------------------------
Frontend == (\E r \in Ranks : Receive(r)) \/ NoticeDeath \/ StepReturns \/ ControlReturns
Replica(r) == ReplyControl(r) \/ EnterStep(r) \/ LeaveStep(r)

Next ==
  \/ \E r \in Ranks : AdmitNew(r) \/ Read(r) \/ ReadsOldReply(r) \/ StepRaises(r) \/ Dies(r)
  \/ \E c \in Chains : AdmitResumed(c) \/ AdmitRecreated(c) \/ InvalidateUnowned(c)
  \/ \E g \in Ids : AbortRequest(g) \/ \E c \in Chains : DiscardChain(c, g)
  \/ \E kind \in {"step", "control"} : CallAll(kind)
  \/ \E r \in Ranks : Replica(r)
  \/ MatchMeetsDead \/ Collective \/ Frontend \/ Timeout \/ Exit

Spec == Init /\ [][Next]_vars

\* Live processes run, and the frontend reads what is ready.
FairSpec ==
  Spec /\ WF_vars(Frontend) /\ WF_vars(Collective) /\ \A r \in Ranks : WF_vars(Replica(r))

-----------------------------------------------------------------------------
\* Between calls the tables agree with the replicas: every running request has
\* a global id that finds it and is active where it runs, every active id runs
\* (is_finished can be trusted), every resident chain is routed to its replica
\* under the id of its sequence, and no id is kept that nothing will release.
\* Recreated chains are excepted: see the README.
IdentitiesExact ==
  engine = "up" /\ call.kind = "none" =>
    LET Runs(r, s) == s \in worker[r].run
    IN  /\ \A r \in Ranks, s \in Ids : <<r, s>> \notin replaced =>
             LET g == front.ids[<<r, s>>]
             IN  /\ g # None => front.owners[g] = <<r, s>>
                 /\ Runs(r, s) => g # None /\ g \in front.active[r]
                 /\ \A c \in Chains : worker[r].rec[c] = s =>
                      /\ g # None /\ g \in front.chain_seq_ids
                      /\ front.chain_owners[c] = r /\ front.chain_sequences[c] = g
        /\ \A r \in Ranks : \A g \in front.active[r] :
             LET p == front.owners[g]
             IN  IF p = None THEN replaced # {}
                 ELSE p[1] = r /\ Runs(r, p[2]) /\ front.ids[p] = g
        /\ \A g \in Ids : front.owners[g] # None =>
             \/ \E r \in Ranks : g \in front.active[r]
             \/ \E c \in Chains : front.chain_sequences[c] = g /\ front.chain_owners[c] # None

\* The frontend never takes the reply to one call for the reply to another,
\* unless a replica's process has died (_receive drains every reply before it
\* raises the error of a control call).
RepliesMatchCalls == engine = "stale" => Dead # {}

\* A call to every replica comes back, with the engine closed if need be: no
\* replica that raised or died leaves its peers waiting in the collective for
\* ever, and no timeout is needed for that.
CallsEnd == call.kind # "none" ~> call.kind = "none"

\* A resident chain has the global id it was admitted under: "the returned
\* seq_id is the resident sequence identity and remains stable across turns"
\* (LLMEngine.admit_request).
ChainKeepsItsId ==
  engine = "up" => \A r \in Ranks, c \in Chains :
    worker[r].rec[c] # None => front.ids[<<r, worker[r].rec[c]>>] # None
=============================================================================
