------------------------------ MODULE GptOracle ------------------------------
(***************************************************************************)
(* The solana-gpt-oracle program.  It keeps one agent (an LLM context of   *)
(* the oracle) and asks it its prompt, at the expense of a treasury:       *)
(* directly, or by a task in a TukTuk queue, which names the context the   *)
(* program had when the task was compiled.  Answers come back from the     *)
(* oracle's worker whenever it gets to them.                               *)
(***************************************************************************)
EXTENDS Integers, Sequences

CONSTANTS
    NoState,         \* the oracle_state account does not exist
    NoInteraction,   \* the oracle has no interaction account for a context
    TEXTS,           \* prompts and answers: what is told apart is their length
    MAX_PROMPT,      \* 280
    MAX_RESPONSE,    \* 512
    RENT,            \* lamports that keep an empty account alive
    LAMPORTS,        \* amounts the treasury is funded with
    IDS,             \* ids of the TukTuk queue
    NoTask,          \* an id that is free
    MaxContexts,     \* bound on contexts
    MaxAsked,        \* bound on requests
    MaxFunds         \* bound on the treasury

\* Contexts are numbered in the order of the oracle's counter.
CONTEXTS == 1..MaxContexts
Default == 0

VARIABLES
    oracle_state,    \* the program's account
    treasury,        \* lamports of the treasury
    descriptions,    \* what each context was created with, kept by the oracle
    interactions,    \* the interaction account of each context, kept by the oracle
    tasks            \* the TukTuk queue

own == <<oracle_state, treasury, descriptions, interactions>>
vars == <<oracle_state, treasury, descriptions, interactions, tasks>>

Init ==
    /\ oracle_state = NoState
    /\ treasury = 0
    /\ descriptions = <<>>
    /\ interactions = [c \in CONTEXTS |-> NoInteraction]
    /\ tasks = [id \in IDS |-> NoTask]

Initialized == oracle_state # NoState

\* TukTuk creates an account for the task, which fails when the id is in use.
IdFree(id) == tasks[id] = NoTask

\* queue_task_v0
QueueTask(id, task) ==
    /\ IdFree(id)
    /\ tasks' = [tasks EXCEPT ![id] = task]

---------------------------------------------------------------------------
(* Instructions. *)

\* The treasury may have been funded before: init adds what is missing.
Initialize(prompt, authority) ==
    /\ oracle_state = NoState
    /\ prompt <= MAX_PROMPT
    /\ oracle_state' = [llm_context |-> Default, default_prompt |-> prompt,
                        task_queue_authority |-> authority,
                        requests |-> 0, last_response |-> 0]
    /\ treasury' = IF treasury < RENT THEN RENT ELSE treasury
    /\ UNCHANGED <<descriptions, interactions, tasks>>

\* bug: leaves the prompt as it was
CreateContext_prompt(description) ==
    /\ Initialized
    /\ description <= MAX_PROMPT
    /\ Len(descriptions) < MaxContexts
    /\ descriptions' = Append(descriptions, description)
    /\ oracle_state' = [oracle_state EXCEPT !.llm_context = Len(descriptions) + 1]
    /\ UNCHANGED <<treasury, interactions, tasks>>

CreateContext(description) ==
    /\ Initialized
    /\ description <= MAX_PROMPT
    /\ Len(descriptions) < MaxContexts
    /\ descriptions' = Append(descriptions, description)
    /\ oracle_state' = [oracle_state EXCEPT !.llm_context = Len(descriptions) + 1,
                                            !.default_prompt = description]
    /\ UNCHANGED <<treasury, interactions, tasks>>

\* A transfer that leaves the treasury without its rent fails.
FundTreasury(lamports) ==
    /\ lamports > 0
    /\ treasury + lamports \in RENT..MaxFunds
    /\ treasury' = treasury + lamports
    /\ UNCHANGED <<oracle_state, descriptions, interactions, tasks>>

\* The oracle makes the interaction of a context, or fits the one there is to the
\* new text and forgets its answer; the payer adds the rent that is missing.
Paid(c) == IF interactions[c] = NoInteraction THEN 0 ELSE interactions[c].rent

Due(c, text) == IF Paid(c) < RENT + text THEN RENT + text - Paid(c) ELSE 0

Affordable(due) == due = treasury \/ due <= treasury - RENT \/ due = 0

InteractWithLlm(c, text) ==
    /\ Affordable(Due(c, text))
    /\ treasury' = treasury - Due(c, text)
    /\ interactions' = [interactions EXCEPT
           ![c] = [text |-> text, rent |-> Paid(c) + Due(c, text), is_processed |-> FALSE]]

\* bug: any context will do
OfState_any(c) == TRUE

OfState(c) == c = oracle_state.llm_context

RequestGpt(c) ==
    /\ Initialized
    /\ OfState(c)
    /\ oracle_state.llm_context # Default
    /\ oracle_state.requests < MaxAsked
    /\ InteractWithLlm(c, oracle_state.default_prompt)
    /\ oracle_state' = [oracle_state EXCEPT !.requests = @ + 1]
    /\ UNCHANGED descriptions

\* A wallet that is the authority signs for itself.
SendRequest(c) ==
    /\ RequestGpt(c)
    /\ oracle_state.task_queue_authority = "wallet"
    /\ UNCHANGED tasks

\* TukTuk wants the authority that belongs to the queue, and the program the one it
\* was initialized with.
Schedule(id) ==
    /\ Initialized
    /\ oracle_state.task_queue_authority = "queue"
    /\ oracle_state.llm_context # Default
    /\ QueueTask(id, oracle_state.llm_context)
    /\ UNCHANGED own

\* bug: takes an answer of any length
StoreResponse_any(response) ==
    /\ Initialized
    /\ oracle_state' = [oracle_state EXCEPT !.last_response = response]

StoreResponse(response) ==
    /\ Initialized
    /\ response <= MAX_RESPONSE
    /\ oracle_state' = [oracle_state EXCEPT !.last_response = response]

\* The callback, which wants the signature of the oracle's identity and nothing else.
ProcessOracleCallback(response) ==
    /\ StoreResponse(response)
    /\ UNCHANGED <<treasury, descriptions, tasks>>

---------------------------------------------------------------------------
(* The world outside the program. *)

\* The oracle's worker answers an interaction once, and the callback is in the
\* transaction that marks it as processed.
Answer(c, response) ==
    /\ interactions[c] # NoInteraction
    /\ ~interactions[c].is_processed
    /\ ProcessOracleCallback(response)
    /\ interactions' = [interactions EXCEPT ![c].is_processed = TRUE]

\* Other clients of the oracle may name this program in their callbacks.
AnswerOther(response) ==
    /\ ProcessOracleCallback(response)
    /\ UNCHANGED interactions

\* TukTuk signs as the queue's authority, the one that Schedule has checked; a task
\* that fails stays queued.
RunTask(id) ==
    /\ tasks[id] \in CONTEXTS
    /\ RequestGpt(tasks[id])
    /\ tasks' = [tasks EXCEPT ![id] = NoTask]

\* A task that was not run in time can be taken out.
DropTask(id) ==
    /\ tasks[id] \in CONTEXTS
    /\ tasks' = [tasks EXCEPT ![id] = NoTask]
    /\ UNCHANGED own

OwnNext ==
    \/ \E text \in TEXTS, authority \in {"wallet", "queue"} : Initialize(text, authority)
    \/ \E text \in TEXTS : CreateContext(text) \/ AnswerOther(text)
    \/ \E lamports \in LAMPORTS : FundTreasury(lamports)
    \/ \E c \in CONTEXTS : SendRequest(c) \/ \E text \in TEXTS : Answer(c, text)
    \/ \E id \in IDS : Schedule(id) \/ RunTask(id) \/ DropTask(id)

---------------------------------------------------------------------------
(* Properties. *)

OracleState == [llm_context : {Default} \cup CONTEXTS, default_prompt : 0..MAX_PROMPT,
                task_queue_authority : {"wallet", "queue"},
                requests : Nat, last_response : 0..MAX_RESPONSE]

Interaction == [text : 0..MAX_PROMPT, rent : Nat, is_processed : BOOLEAN]

(* Every variable has its type; texts fit into the space of their accounts, and the
   treasury is never left with less than its rent. *)
TypeOK ==
    /\ oracle_state \in OracleState \cup {NoState}
    /\ treasury \in {0} \cup RENT..MaxFunds
    /\ descriptions \in Seq(0..MAX_PROMPT)
    /\ interactions \in [CONTEXTS -> Interaction \cup {NoInteraction}]

(* An agent is only ever asked the prompt it was created with, however requests,
   tasks and new contexts interleave. *)
PromptsMatch ==
    \A c \in CONTEXTS :
        interactions[c] # NoInteraction
            => c <= Len(descriptions) /\ interactions[c].text = descriptions[c]

Stale(id) == tasks[id] \in CONTEXTS /\ Initialized /\ tasks[id] # oracle_state.llm_context

(* Once another context is the program's, a task that was compiled for the old one
   never runs: it stays, and stays stale, until it is dropped, and asks nobody. *)
StaleTasksInert ==
    [][\A id \in IDS : Stale(id)
           => \/ tasks'[id] = tasks[id] /\ Stale(id)'
              \/ tasks'[id] = NoTask /\ UNCHANGED own]_vars

=============================================================================
