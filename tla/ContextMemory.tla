----------------------------- MODULE ContextMemory -----------------------------
(***************************************************************************)
(* The conversation turns and the prompt made of them (core/context.py):   *)
(* each caller's scope sees its own turns and memories only, behind a      *)
(* cache of prompts; a turn is saved with its entities in one transaction. *)
(* Every operation is one section of the event loop.                       *)
(***************************************************************************)
EXTENDS Naturals, Sequences, FiniteSets

CONSTANTS
    Scope,     \* scopes of callers; "" is the shared one
    Formatted,    \* formatted long-term memories
    MaxTurns,  \* bound: turns saved
    Wanted     \* lengths of history that callers ask for

Shared == ""
Nothing == "nothing"
Asked == Scope \union {"any"}     \* scope=None: every caller's turns
Key == Wanted \X Asked

VARIABLES
    turns,     \* the turns table: the scope of each turn
    entities,  \* turns with rows in the entities table
    memories,  \* the long-term memories of each scope
    prompts,   \* _prompt_cache
    dirty,     \* _turns_cache_dirty
    open,      \* the connection is usable
    served     \* the last prompt that was given out

vars == <<turns, entities, memories, prompts, dirty, open, served>>

Init ==
    /\ turns = <<>> /\ entities = {}
    /\ memories = [s \in Scope |-> Nothing]
    /\ prompts = [k \in {} |-> <<>>]
    /\ dirty = TRUE /\ open = TRUE
    /\ served = [key |-> <<>>]

-----------------------------------------------------------------------------
\* last_n(): the last n turns of the scope, which their numbers put in order.
Turns(scope) == {t \in [id : DOMAIN turns, scope : Scope] :
                    turns[t.id] = t.scope /\ scope \in {"any", t.scope}}
LastN(n, scope) ==
    {t \in Turns(scope) : Cardinality({u \in Turns(scope) : u.id > t.id}) < n}

\* What format_for_prompt() computes.
Prompt(key) ==
    [memory |-> memories[IF key[2] = "any" THEN Shared ELSE key[2]],
     recent |-> LastN(key[1], key[2])]

Invalid == dirty' = TRUE /\ prompts' = [k \in {} |-> <<>>]

\* save(): the insertions and the commit; a failure is rolled back and raised,
\* and if the rollback fails too the connection is given up.
Save(scope, withEntities) ==
    /\ open /\ Len(turns) < MaxTurns
    /\ turns' = Append(turns, scope)
    /\ entities' = IF withEntities THEN entities \union {Len(turns) + 1} ELSE entities
    /\ Invalid
    /\ UNCHANGED <<memories, open, served>>
SaveFails(scope) ==
    /\ open
    /\ open' \in BOOLEAN
    /\ UNCHANGED <<turns, entities, memories, prompts, dirty, served>>

\* set_long_term_memories(), set_long_term_memories_string()
Remember(scope, m) ==
    /\ memories' = [memories EXCEPT ![scope] = m]
    /\ Invalid
    /\ UNCHANGED <<turns, entities, open, served>>

\* format_for_prompt(): only an open store answers, cached or not.
CachedPrompt(key) == ~dirty /\ key \in DOMAIN prompts
FromCache(key) ==
    /\ open /\ CachedPrompt(key)
    /\ served' = [key |-> key, prompt |-> prompts[key]]
    /\ UNCHANGED <<turns, entities, memories, prompts, dirty, open>>
Compute(key) ==
    /\ open /\ ~CachedPrompt(key)
    /\ prompts' = [k \in DOMAIN prompts \union {key} |->
                     IF k = key THEN Prompt(key) ELSE prompts[k]]
    /\ dirty' = FALSE
    /\ served' = [key |-> key, prompt |-> Prompt(key)]
    /\ UNCHANGED <<turns, entities, memories, open>>

Next ==
    \/ \E s \in Scope : (\E e \in BOOLEAN : Save(s, e)) \/ SaveFails(s)
    \/ \E s \in Scope, m \in Formatted : Remember(s, m)
    \/ \E key \in Key : FromCache(key) \/ Compute(key)
Spec == Init /\ [][Next]_vars

-----------------------------------------------------------------------------
TypeOK ==
    /\ turns \in Seq(Scope) /\ Len(turns) <= MaxTurns
    /\ entities \subseteq DOMAIN turns
    /\ memories \in [Scope -> Formatted \union {Nothing}]
    /\ DOMAIN prompts \subseteq Key
    /\ dirty \in BOOLEAN /\ open \in BOOLEAN

\* A caller with a scope reads its own turns and memories only, whatever other
\* callers ask for in between ("CTX-SCOPE-001", context.py:53).
ScopesAreSeparate ==
    served.key # <<>> => served.key[2] = "any" \/
        \A t \in served.prompt.recent : t.scope = served.key[2]

\* A cached prompt is the one that would be computed: every save and every
\* memory set since it was made has dropped it.
PromptsAreFresh ==
    ~dirty => \A key \in DOMAIN prompts : prompts[key] = Prompt(key)
=============================================================================
