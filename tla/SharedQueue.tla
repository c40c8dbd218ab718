----------------------------- MODULE SharedQueue -----------------------------
(***************************************************************************)
(* The er-state-account and the solana-gpt-oracle program queue their      *)
(* tasks in one TukTuk queue: the caller chooses it, and the scripts in    *)
(* both Anchor.toml name the same one.  A task of the first is UpdateTask, *)
(* one of the second the context it asks.                                  *)
(***************************************************************************)
EXTENDS DelegatedState

CONSTANTS
    NoState, NoInteraction, TEXTS, MAX_PROMPT, MAX_RESPONSE, RENT, LAMPORTS,
    MaxContexts, MaxAsked, MaxFunds

VARIABLES oracle_state, treasury, descriptions, interactions

Gpt == INSTANCE GptOracle

ASSUME SharedAssumption ==
    /\ OTHERTASKS = Gpt!CONTEXTS
    /\ MaxContexts \in Nat
    /\ {MAX_PROMPT, MAX_RESPONSE, RENT, MaxFunds} \cup TEXTS \cup LAMPORTS \subseteq Nat
    /\ RENT <= MaxFunds
    /\ NoState \notin Gpt!OracleState
    /\ NoInteraction \notin Gpt!Interaction

GptVars == <<oracle_state, treasury, descriptions, interactions>>

SharedInit == Init /\ Gpt!Init

SharedNext ==
    \/ OwnNext /\ UNCHANGED GptVars
    \/ Gpt!OwnNext /\ UNCHANGED own

\* Commits reach the base layer some day; nobody has to do anything else.
Fairness == WF_vars(LandSome)

SharedSpec == SharedInit /\ [][SharedNext]_<<vars, GptVars>> /\ Fairness

---------------------------------------------------------------------------
(* Properties. *)

(* Types, prompts and stale tasks of the GPT program are as they are alone. *)
GptTypeOK == Gpt!TypeOK
PromptsMatch == Gpt!PromptsMatch
StaleTasksInert == Gpt!StaleTasksInert

=============================================================================
