------------------------------ MODULE Reductions ------------------------------
(***************************************************************************)
(* Turns of an agent that feeds each model output to a reducer and commits *)
(* the Reduction it gets, block by block and edge by edge, to a store that *)
(* deduplicates by content (llm386-reduce, llm386-core/src/reducer.rs).    *)
(* The agent is not part of the repository: it commits as DESIGN.md says,  *)
(* may stop anywhere in a commit and then replays the recorded turn, as    *)
(* often as it likes.  link_to_state is on, as AppendOutputReducer::new    *)
(* sets it.                                                                *)
(***************************************************************************)
EXTENDS Integers, SequencesExt

CONSTANTS
  NoState,    \* the agent has no state block yet; an output without one
  Malformed,  \* output that is not a JSON envelope
  Said,       \* raw outputs; "" is empty
  Envelope,   \* JSON outputs: [state, events: sequence of <<kind, body>>]
  Reducers,   \* reducers in use
  MaxTurns    \* bound

ASSUME EnvelopeAssumption == \A e \in Envelope : Len(e.events) \in Nat
ASSUME ReducersAssumption == Reducers \subseteq {"identity", "append-output", "json-events"}

VARIABLES
  held,     \* id -> [kind, body]: the blocks of the store
  links,    \* <<from, to>>: its Parent edges
  current,  \* id of the agent's state block
  turn      \* [now, reducer, state, output, pc, blocks, edges]: the turn being committed

agentVars == <<held, links, current, turn>>

-----------------------------------------------------------------------------
Empty == ""

(* CommittedOnce: random low bits, as for blocks that callers put. *)
BlockIdFrom_Random(now, kind, body) == <<now, body, <<kind, Cardinality(links)>> >>

(* The time, the hash of the body, and the kind mixed into it; every       *)
(* output stored raw is an AssistantMessage.                               *)
BlockIdFrom(now, kind, body) == <<now, body, kind>>

NewBlock(now, kind, body, parents) ==
  [id |-> BlockIdFrom(now, kind, body), kind |-> kind, body |-> body, parents |-> parents]

Nothing == [blocks |-> <<>>, edges |-> {}]
ParentsOf(state) == IF state = NoState THEN {} ELSE {state}

(* The edge is drawn from the id proposed, before any put has answered.    *)
AppendOutput(now, state, output) ==
  IF output = Empty THEN Nothing
  ELSE LET b == NewBlock(now, "AssistantMessage", output, ParentsOf(state))
       IN [blocks |-> <<b>>, edges |-> {<<b.id, p>> : p \in ParentsOf(state)}]

(* The replacement state first, then one block per event with a body. *)
JsonBlocks(now, state, envelope) ==
  LET next == IF envelope.state \in {NoState, Empty} THEN <<>>
              ELSE <<NewBlock(now, "State", envelope.state, ParentsOf(state))>>
      blocks[n \in 0..Len(envelope.events)] ==
        IF n = 0 THEN next
        ELSE LET e == envelope.events[n] IN
             IF e[2] = Empty THEN blocks[n - 1]
             ELSE Append(blocks[n - 1], NewBlock(now, e[1], e[2], ParentsOf(state)))
  IN blocks[Len(envelope.events)]

JsonEvents(now, state, envelope) ==
  [blocks |-> JsonBlocks(now, state, envelope), edges |-> {}]

Reduced ==
  CASE turn.reducer = "identity" -> Nothing
    [] turn.reducer = "append-output" -> AppendOutput(turn.now, turn.state, turn.output)
    [] turn.reducer = "json-events" -> JsonEvents(turn.now, turn.state, turn.output)

-----------------------------------------------------------------------------
AgentInit ==
  /\ held = <<>> /\ links = {} /\ current = NoState
  /\ turn = [now |-> 0, reducer |-> "identity", state |-> NoState, output |-> Empty, pc |-> "done",
             blocks |-> <<>>, edges |-> {}]

(* The model answers; one output in a turn. *)
TakeOutput(reducer, output) ==
  /\ turn.pc = "done" /\ turn.now < MaxTurns
  /\ turn' = [now |-> turn.now + 1, reducer |-> reducer, state |-> current, output |-> output,
              pc |-> "reduce", blocks |-> <<>>, edges |-> {}]
  /\ UNCHANGED <<held, links, current>>

(* An output that is no envelope is rejected and nothing is committed. *)
ReduceOutput ==
  /\ turn.pc = "reduce"
  /\ turn' = IF turn.output = Malformed THEN [turn EXCEPT !.pc = "done"]
             ELSE [turn EXCEPT !.pc = "commit", !.blocks = Reduced.blocks,
                               !.edges = Reduced.edges]
  /\ UNCHANGED <<held, links, current>>

SameBody(body) == {x \in DOMAIN held : held[x].body = body}

(* put answers the id under which the content is stored, and that is the   *)
(* state the agent continues with.                                         *)
CommitBlock ==
  /\ turn.pc = "commit" /\ turn.blocks # <<>>
  /\ LET b == Head(turn.blocks)
         id == IF SameBody(b.body) = {} THEN b.id ELSE CHOOSE x \in SameBody(b.body) : TRUE
     IN /\ held' = IF SameBody(b.body) # {} THEN held
                  ELSE [x \in DOMAIN held \union {id} |->
                          IF x = id THEN [kind |-> b.kind, body |-> b.body] ELSE held[x]]
        /\ current' = IF b.kind = "State" THEN id ELSE current
  /\ turn' = [turn EXCEPT !.blocks = Tail(@)]
  /\ UNCHANGED links

CommitEdges ==
  /\ turn.pc = "commit" /\ turn.blocks = <<>>
  /\ links' = links \union turn.edges
  /\ turn' = [turn EXCEPT !.pc = "done"]
  /\ UNCHANGED <<held, current>>

(* The commit stops somewhere, or was done, and the turn is run again from *)
(* its record, the same time, state and output, any number of times.       *)
Replay ==
  /\ turn.now > 0 /\ turn.pc \in {"commit", "done"}
  /\ turn' = [turn EXCEPT !.pc = "reduce", !.blocks = <<>>, !.edges = {}]
  /\ UNCHANGED <<held, links, current>>

AgentNext ==
  \/ \E reducer \in Reducers, output \in Said : reducer # "json-events" /\ TakeOutput(reducer, output)
  \/ \E output \in Envelope \union {Malformed} : "json-events" \in Reducers /\ TakeOutput("json-events", output)
  \/ ReduceOutput \/ CommitBlock \/ CommitEdges \/ Replay

AgentSpec == AgentInit /\ [][AgentNext]_agentVars

-----------------------------------------------------------------------------
(* A turn's reduction run again, wherever earlier commits stopped, ends    *)
(* with each body stored once and at most one edge for each output: the    *)
(* ids repeat, and the store deduplicates what they name.                  *)
ReplayAddsNothing ==
  /\ \A x, y \in DOMAIN held : held[x].body = held[y].body => x = y
  /\ \A e, f \in links : e[1][1] = f[1][1] /\ e[1][2] = f[1][2] => e = f

(* A Parent edge leaves an id that is not stored only where the store had  *)
(* the output already, under the id of an earlier turn or of another kind. *)
(* Such an edge is lost: OutputIsLinked says so.                           *)
LostFromIsDuplicate ==
  \A e \in links :
    \/ e[1] \in DOMAIN held
    \/ \E x \in DOMAIN held : held[x].body = e[1][2] /\ (x[1] < e[1][1] \/ x[3] # "AssistantMessage")

(* Replays store nothing twice and link nothing twice, and the Parent edge *)
(* of an output the store did not have before leaves the block put for it. *)
CommittedOnce == ReplayAddsNothing /\ LostFromIsDuplicate

(***************************************************************************)
(* What DESIGN.md says of AppendOutputReducer: it stores the response and  *)
(* links it to the prior state.  The edge names the id proposed for the    *)
(* response, which is not the one put stores a repeated response under.    *)
(***************************************************************************)
OutputIsLinked ==
  turn.pc = "done" /\ turn.reducer = "append-output" /\ turn.output # Empty /\ turn.state # NoState =>
    \E x \in DOMAIN held : held[x].body = turn.output /\ <<x, turn.state>> \in links
=============================================================================
