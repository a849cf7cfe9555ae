--------------------------- MODULE LanguageModel ----------------------------
(***************************************************************************)
(* One call of the language model (services/llm/gemini_provider.py,        *)
(* _generate): the keys, primary and backup, times the models, default and *)
(* fallbacks, are tried in turn. Every job of the backend that asks the    *)
(* model (questions, follow-ups, reports) fails when this call raises.     *)
(***************************************************************************)
EXTENDS Integers, SequencesExt

CONSTANTS
    Keys,       \* labels of the keys that are configured, in order
    Configured  \* gemini_model and then gemini_fallback_models, in order

ASSUME LanguageModelAssumption ==
    /\ Keys \in Seq(STRING) /\ Keys # <<>> /\ IsInjective(Keys)
    /\ Configured \in Seq(STRING) /\ Configured # <<>>

VARIABLES
    key,        \* position of the client that is tried
    model,      \* position of the model that is tried
    tried,      \* the attempts so far, in order, each with its outcome
    result      \* what the call returned

call == <<key, model, tried, result>>

(* Model names without repetition (dict.fromkeys), of the first n.         *)
Distinct[n \in 0 .. Len(Configured)] ==
    IF n = 0 THEN <<>>
    ELSE IF Configured[n] \in ToSet(Distinct[n - 1]) THEN Distinct[n - 1]
    ELSE Append(Distinct[n - 1], Configured[n])

Models == Distinct[Len(Configured)]

CallInit ==
    /\ key = 1
    /\ model = 1
    /\ tried = <<>>
    /\ result = "none"

Attempted(outcome) ==
    /\ result = "none"
    /\ key <= Len(Keys) /\ model <= Len(Models)
    /\ tried' = Append(tried, [key |-> Keys[key], model |-> Models[model], outcome |-> outcome])

(* An answer in the schema that was asked for, or restored from its text.  *)
Answered ==
    /\ Attempted("answer")
    /\ result' = "answer"
    /\ UNCHANGED <<key, model>>

(* An answer that is no JSON of the schema: an exception outside the try.  *)
Unreadable ==
    /\ Attempted("unreadable")
    /\ result' = "raise"
    /\ UNCHANGED <<key, model>>

(* 400, 413, 422: the request itself is at fault, anywhere.                *)
RequestFault ==
    /\ Attempted("request")
    /\ result' = "raise"
    /\ UNCHANGED <<key, model>>

(* 401, 403: the models that this key has left are skipped.                *)
KeyFault ==
    /\ Attempted("key")
    /\ key' = key + 1
    /\ model' = 1
    /\ UNCHANGED result

(* Mutant: a spent quota is taken for a fault of the key.                  *)
Unavailable_NextKey ==
    /\ Attempted("unavailable")
    /\ key' = key + 1
    /\ model' = 1
    /\ UNCHANGED result

(* Any other code, or the connection: the next model, and after the last   *)
(* one the next key.                                                       *)
Unavailable ==
    /\ Attempted("unavailable")
    /\ IF model < Len(Models)
       THEN model' = model + 1 /\ key' = key
       ELSE model' = 1 /\ key' = key + 1
    /\ UNCHANGED result

Exhausted ==
    /\ result = "none"
    /\ key > Len(Keys)
    /\ result' = "raise"
    /\ UNCHANGED <<key, model, tried>>

CallNext ==
    \/ Answered \/ Unreadable \/ RequestFault
    \/ KeyFault \/ Unavailable \/ Exhausted

CallSpec == CallInit /\ [][CallNext]_call

-----------------------------------------------------------------------------
(* Properties.                                                             *)

Of(k) == {i \in DOMAIN tried : tried[i].key = k}

(* Nothing is to be hoped for from the key k: it was refused, or every     *)
(* model that is configured was tried on it and was not available.         *)
Spent(k) ==
    \/ \E i \in Of(k) : tried[i].outcome = "key"
    \/ \A x \in ToSet(Configured) :
          \E i \in Of(k) : tried[i].model = x /\ tried[i].outcome = "unavailable"

(* "The backup key is used only when every model of the primary one is     *)
(* exhausted", a call is not repeated on a combination that failed, and it *)
(* raises only when no combination is left or none could help (_generate). *)
FallbackInTurn ==
    /\ \A i, j \in DOMAIN tried :
          i # j => tried[i].key # tried[j].key \/ tried[i].model # tried[j].model
    /\ \A i, j \in DOMAIN Keys : i < j /\ Of(Keys[j]) # {} => Spent(Keys[i])
    /\ \A i \in DOMAIN tried :
          i < Len(tried) => tried[i].outcome \in {"key", "unavailable"}
    /\ result = "raise" =>
          \/ Last(tried).outcome \in {"request", "unreadable"}
          \/ \A k \in ToSet(Keys) : Spent(k)

-----------------------------------------------------------------------------
(* What FallbackInTurn rests on while the call goes on: what was tried are *)
(* the combinations before the present one, all of which failed; the keys  *)
(* before the present one are spent, and of this key the models before.    *)
Outcomes == {"answer", "unreadable", "request", "key", "unavailable"}

Tried(k, m) == \E i \in DOMAIN tried :
    tried[i].key = Keys[k] /\ tried[i].model = Models[m] /\ tried[i].outcome = "unavailable"

InTurn ==
    /\ \A i \in DOMAIN tried :
          /\ tried[i].outcome \in {"key", "unavailable"}
          /\ \E k \in DOMAIN Keys, m \in DOMAIN Models :
                /\ tried[i].key = Keys[k] /\ tried[i].model = Models[m]
                /\ k < key \/ (k = key /\ m < model)
    /\ \A k \in DOMAIN Keys : k < key => Spent(Keys[k])
    /\ key \in DOMAIN Keys => \A m \in DOMAIN Models : m < model => Tried(key, m)

CallInv ==
    /\ key \in 1 .. Len(Keys) + 1 /\ model \in DOMAIN Models
    /\ tried \in Seq([key : STRING, model : STRING, outcome : Outcomes])
    /\ FallbackInTurn
    /\ result = "none" => InTurn
=============================================================================
