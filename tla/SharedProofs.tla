---------------------------- MODULE SharedProofs ----------------------------
(***************************************************************************)
(* Proofs about what the components share: a call of the language model,   *)
(* the chunks of a live recording, the transcripts of a file and of the    *)
(* chunks, and the promise of a polled row (LanguageModel, PcmChunker,     *)
(* Stt, AsyncJob); for all keys, models, recordings, talks and rows. What  *)
(* is computed step by step is proved by the first number at which it      *)
(* would fail (LeastMember, UpTo).                                         *)
(***************************************************************************)
EXTENDS PcmChunker, LanguageModel, FiniteSetTheorems, SequenceTheorems,
        WellFoundedInduction, TLAPS

(* The order of the natural numbers is well-founded, without an operator   *)
(* as a parameter: what is false has a first counterexample.               *)
LEMMA LeastMember ==
    ASSUME NEW T \in SUBSET Nat, T # {}
    PROVE  \E x \in T : \A y \in T : x <= y
<1> DEFINE R == OpToRel(<, Nat)
<1>1. IsWellFoundedOn(R, Nat)
  BY NatLessThanWellFounded
<1>2. \A x, y \in Nat : x < y => <<x, y>> \in R
  BY DEF OpToRel
<1> HIDE DEF R
<1>3. PICK x \in T : \A y \in T : ~ (<<y, x>> \in R)
  BY <1>1, WFMin
<1>4. ASSUME NEW y \in T PROVE x <= y
  <2>1. x \in Nat /\ y \in Nat /\ ~(y < x)
    BY <1>2, <1>3
  <2> QED
    BY <2>1
<1> QED
  BY <1>4

(* Induction up to a bound, for a set that is given.                       *)
LEMMA UpTo ==
    ASSUME NEW L \in Nat, NEW S, 0 \in S, \A n \in 0 .. L - 1 : n \in S => n + 1 \in S
    PROVE  0 .. L \subseteq S
<1> SUFFICES ASSUME NEW T, T = {n \in 0 .. L : n \notin S}, T # {} PROVE FALSE
  OBVIOUS
<1>1. PICK n \in T : \A m \in T : n <= m
  BY LeastMember
<1>2. n # 0 /\ n \in Nat /\ n <= L
  BY <1>1
<1>3. n - 1 \in 0 .. L - 1 /\ n - 1 \notin T
  BY <1>1, <1>2
<1>4. n - 1 \in S
  BY <1>2, <1>3
<1>5. (n - 1) + 1 \in S
  BY <1>3, <1>4
<1> QED
  BY <1>2, <1>5
-----------------------------------------------------------------------------
(* The language model.                                                     *)

(* What the definition of Distinct says of n, given a function for n - 1.  *)
NextDistinct(f, n) ==
    IF n = 0 THEN <<>>
    ELSE IF Configured[n] \in ToSet(f[n - 1]) THEN f[n - 1]
    ELSE Append(f[n - 1], Configured[n])

LEMMA DistinctExists ==
    \A n \in 0 .. Len(Configured) : Distinct[n] = NextDistinct(Distinct, n)
<1> DEFINE L == Len(Configured)
           S == {n \in 0 .. L : \E f : f = [i \in 0 .. n |-> NextDistinct(f, i)]}
<1>0. L \in Nat
  BY LanguageModelAssumption
<1>1. 0 \in S
  <2> DEFINE f == [i \in 0 .. 0 |-> <<>>]
  <2>1. f = [i \in 0 .. 0 |-> NextDistinct(f, i)]
    BY DEF NextDistinct
  <2> QED
    BY <1>0, <2>1
<1>2. ASSUME NEW n \in 0 .. L - 1, n \in S PROVE n + 1 \in S
  <2>1. PICK f : f = [i \in 0 .. n |-> NextDistinct(f, i)]
    BY <1>2
  <2> DEFINE g == [i \in 0 .. n + 1 |-> IF i <= n THEN f[i] ELSE NextDistinct(f, i)]
  <2>2. \A i \in 0 .. n : g[i] = f[i]
    BY <1>0
  <2>3. ASSUME NEW i \in 0 .. n + 1 PROVE g[i] = NextDistinct(g, i)
    <3>1. i = 0 \/ g[i - 1] = f[i - 1]
      BY <1>0, <2>2
    <3>2. NextDistinct(g, i) = NextDistinct(f, i)
      BY <3>1 DEF NextDistinct
    <3>3. g[i] = NextDistinct(f, i)
      BY <1>0, <2>1
    <3> QED
      BY <3>2, <3>3
  <2>4. g = [i \in 0 .. n + 1 |-> NextDistinct(g, i)]
    BY <2>3
  <2> HIDE DEF g
  <2> QED
    BY <1>0, <2>4
<1> HIDE DEF S
<1>3. 0 .. L \subseteq S
  BY <1>0, <1>1, <1>2, UpTo
<1>4. \E f : f = [i \in 0 .. L |-> NextDistinct(f, i)]
  BY <1>0, <1>3 DEF S
<1>5. Distinct = [i \in 0 .. L |-> NextDistinct(Distinct, i)]
  BY <1>4 DEF Distinct, NextDistinct
<1> QED
  BY <1>5
LEMMA DistinctIs ==
    ASSUME NEW n \in 0 .. Len(Configured)
    PROVE  /\ Distinct[n] \in Seq(STRING) /\ IsInjective(Distinct[n])
           /\ ToSet(Distinct[n]) = {Configured[i] : i \in 1 .. n}
<1> DEFINE L == Len(Configured)
           S == {k \in 0 .. L : /\ Distinct[k] \in Seq(STRING) /\ IsInjective(Distinct[k])
                                /\ ToSet(Distinct[k]) = {Configured[i] : i \in 1 .. k}}
<1>0. L \in Nat /\ \A i \in 1 .. L : Configured[i] \in STRING
  BY LanguageModelAssumption
<1>1. 0 \in S
  <2>1. Distinct[0] = <<>>
    BY <1>0, DistinctExists DEF NextDistinct
  <2>2. <<>> \in Seq(STRING) /\ IsInjective(<<>>) /\ ToSet(<<>>) = {}
    BY DEF IsInjective, ToSet
  <2>3. {Configured[i] : i \in 1 .. 0} = {}
    OBVIOUS
  <2>4. /\ Distinct[0] \in Seq(STRING) /\ IsInjective(Distinct[0])
        /\ ToSet(Distinct[0]) = {Configured[i] : i \in 1 .. 0}
    BY <2>1, <2>2, <2>3
  <2> QED
    BY <1>0, <2>4
<1>2. ASSUME NEW k \in 0 .. L - 1, k \in S PROVE k + 1 \in S
  <2> DEFINE ms  == Distinct[k]
             x   == Configured[k + 1]
             new == Distinct[k + 1]
  <2>1. /\ ms \in Seq(STRING) /\ IsInjective(ms) /\ x \in STRING
        /\ ToSet(ms) = {Configured[i] : i \in 1 .. k}
    BY <1>0, <1>2
  <2>2. new = IF x \in ToSet(ms) THEN ms ELSE Append(ms, x)
    <3>1. new = NextDistinct(Distinct, k + 1)
      BY <1>0, DistinctExists
    <3> QED
      BY <3>1 DEF NextDistinct
  <2>3. {Configured[i] : i \in 1 .. k + 1} = {Configured[i] : i \in 1 .. k} \cup {x}
    BY <1>0
  <2> HIDE DEF ms, new
  <2>4. CASE x \in ToSet(ms)
    BY <2>1, <2>2, <2>3, <2>4 DEF ms, new
  <2>5. CASE x \notin ToSet(ms)
    <3>1. /\ new \in Seq(STRING) /\ DOMAIN new = 1 .. Len(ms) + 1 /\ new[Len(ms) + 1] = x
          /\ \A i \in 1 .. Len(ms) : new[i] = ms[i] /\ ms[i] # x
      BY <2>1, <2>2, <2>5 DEF ToSet
    <3>2. IsInjective(new)
      BY <2>1, <3>1 DEF IsInjective
    <3>3. ToSet(new) = ToSet(ms) \cup {x}
      BY <2>1, <3>1 DEF ToSet
    <3> QED
      BY <1>0, <2>1, <2>3, <3>1, <3>2, <3>3 DEF new
  <2> QED
    BY <2>4, <2>5
<1> HIDE DEF S
<1>3. 0 .. L \subseteq S
  BY <1>0, <1>1, <1>2, UpTo
<1> QED
  BY <1>0, <1>3 DEF S

(* dict.fromkeys: every model that is configured, once.                    *)
LEMMA ModelsAre ==
    /\ Models \in Seq(STRING) /\ IsInjective(Models) /\ Len(Models) \in Nat \ {0}
    /\ ToSet(Models) = ToSet(Configured)
<1>1. Len(Configured) \in Nat \ {0} /\ DOMAIN Configured = 1 .. Len(Configured)
  BY LanguageModelAssumption
<1>2. /\ Models \in Seq(STRING) /\ IsInjective(Models)
      /\ ToSet(Models) = {Configured[i] : i \in 1 .. Len(Configured)}
  <2>1. Len(Configured) \in 0 .. Len(Configured)
    BY <1>1
  <2> QED
    BY <2>1, DistinctIs DEF Models
<1>3. ToSet(Models) = ToSet(Configured) /\ Configured[1] \in ToSet(Models)
  <2>1. ToSet(Configured) = {Configured[i] : i \in 1 .. Len(Configured)}
    BY <1>1 DEF ToSet
  <2> QED
    BY <1>1, <1>2, <2>1
<1>4. Len(Models) # 0
  BY <1>2, <1>3 DEF ToSet
<1> QED
  BY <1>2, <1>3, <1>4
(* One more attempt at the present combination.                            *)
LEMMA AttemptKeeps ==
    ASSUME CallInv, NEW o \in Outcomes, Attempted(o)
    PROVE  /\ tried' \in Seq([key : STRING, model : STRING, outcome : Outcomes])
           /\ Len(tried') = Len(tried) + 1 /\ Len(tried) \in Nat
           /\ DOMAIN tried = 1 .. Len(tried) /\ DOMAIN tried' = 1 .. Len(tried')
           /\ \A i \in DOMAIN tried : i \in DOMAIN tried' /\ tried'[i] = tried[i]
           /\ Len(tried') \in DOMAIN tried'
           /\ tried'[Len(tried')] = [key |-> Keys[key], model |-> Models[model], outcome |-> o]
           /\ key \in DOMAIN Keys /\ model \in DOMAIN Models /\ InTurn
<1>1. /\ key \in DOMAIN Keys /\ model \in DOMAIN Models /\ Len(Models) \in Nat
      /\ Keys[key] \in STRING /\ Models[model] \in STRING
      /\ tried \in Seq([key : STRING, model : STRING, outcome : Outcomes])
  BY ModelsAre, LanguageModelAssumption DEF CallInv, Attempted
<1> DEFINE new == [key |-> Keys[key], model |-> Models[model], outcome |-> o]
<1>2. new \in [key : STRING, model : STRING, outcome : Outcomes]
  BY <1>1
<1>3. tried' = Append(tried, new) /\ InTurn
  BY DEF Attempted, CallInv
<1> HIDE DEF new
<1>4. /\ tried' \in Seq([key : STRING, model : STRING, outcome : Outcomes])
      /\ Len(tried') = Len(tried) + 1 /\ Len(tried) \in Nat
      /\ DOMAIN tried = 1 .. Len(tried) /\ DOMAIN tried' = 1 .. Len(tried')
      /\ \A i \in DOMAIN tried : tried'[i] = tried[i]
      /\ tried'[Len(tried')] = new
  BY <1>1, <1>2, <1>3
<1> QED
  BY <1>1, <1>3, <1>4 DEF new

LEMMA SpentKept ==
    ASSUME CallInv, NEW o \in Outcomes, Attempted(o), NEW k, Spent(k)
    PROVE  Spent(k)'
<1>1. \A i \in Of(k) : i \in Of(k)' /\ tried'[i] = tried[i]
  BY AttemptKeeps DEF Of
<1> QED
  BY <1>1 DEF Spent

LEMMA AttemptInTurn ==
    ASSUME CallInv, NEW o \in Outcomes, Attempted(o)
    PROVE  /\ \A i, j \in DOMAIN tried' :
                 i # j => tried'[i].key # tried'[j].key \/ tried'[i].model # tried'[j].model
           /\ \A i, j \in DOMAIN Keys : i < j /\ Of(Keys[j])' # {} => Spent(Keys[i])'
           /\ \A i \in DOMAIN tried' :
                 i < Len(tried') => tried'[i].outcome \in {"key", "unavailable"}
<1>0. /\ IsInjective(Keys) /\ IsInjective(Models)
      /\ DOMAIN Keys \subseteq Nat /\ DOMAIN Models \subseteq Nat
  BY LanguageModelAssumption, ModelsAre
<1>k. /\ Len(tried') = Len(tried) + 1 /\ Len(tried) \in Nat
      /\ DOMAIN tried = 1 .. Len(tried) /\ DOMAIN tried' = 1 .. Len(tried')
      /\ \A i \in DOMAIN tried : i \in DOMAIN tried' /\ tried'[i] = tried[i]
      /\ tried'[Len(tried')] = [key |-> Keys[key], model |-> Models[model], outcome |-> o]
      /\ key \in DOMAIN Keys /\ model \in DOMAIN Models /\ InTurn
  BY AttemptKeeps
<1>a. PICK n \in Nat : n = Len(tried) + 1
  BY <1>k
<1>b. n = Len(tried') /\ DOMAIN tried' = 1 .. n /\ DOMAIN tried = 1 .. n - 1
  BY <1>a, <1>k
<1>1. /\ n \in DOMAIN tried' /\ tried'[n].key = Keys[key] /\ tried'[n].model = Models[model]
      /\ \A i \in DOMAIN tried' : i # n => i \in DOMAIN tried /\ tried'[i] = tried[i] /\ i < n
      /\ key \in DOMAIN Keys /\ model \in DOMAIN Models
  BY <1>a, <1>b, <1>k
<1>2. ASSUME NEW i \in DOMAIN tried
      PROVE  /\ tried[i].key # Keys[key] \/ tried[i].model # Models[model]
             /\ tried[i].outcome \in {"key", "unavailable"}
  <2>0. tried[i].outcome \in {"key", "unavailable"}
    BY <1>k DEF InTurn
  <2>1. PICK k \in DOMAIN Keys, m \in DOMAIN Models :
            /\ tried[i].key = Keys[k] /\ tried[i].model = Models[m]
            /\ k < key \/ (k = key /\ m < model)
    BY <1>k DEF InTurn
  <2>2. CASE k < key
    BY <1>0, <1>1, <2>0, <2>1, <2>2 DEF IsInjective
  <2>3. CASE k = key /\ m < model
    BY <1>0, <1>1, <2>0, <2>1, <2>3 DEF IsInjective
  <2> QED
    BY <2>1, <2>2, <2>3
<1>3. \A i, j \in DOMAIN tried :
          i # j => tried[i].key # tried[j].key \/ tried[i].model # tried[j].model
  BY DEF CallInv, FallbackInTurn
<1>4. ASSUME NEW i \in DOMAIN Keys, NEW j \in DOMAIN Keys, i < j, Of(Keys[j])' # {}
      PROVE  Spent(Keys[i])'
  <2>1. PICK a \in DOMAIN tried' : tried'[a].key = Keys[j]
    BY <1>4 DEF Of
  <2>2. CASE a = n
    <3>1. j = key
      BY <1>0, <1>1, <2>1, <2>2 DEF IsInjective
    <3>2. Spent(Keys[i])
      BY <1>4, <1>k, <3>1 DEF InTurn
    <3> QED
      BY <3>2, SpentKept
  <2>3. CASE a # n
    <3>1. a \in Of(Keys[j])
      BY <1>1, <2>1, <2>3 DEF Of
    <3>2. Spent(Keys[i])
      BY <1>4, <3>1 DEF CallInv, FallbackInTurn
    <3> QED
      BY <3>2, SpentKept
  <2> QED
    BY <2>2, <2>3
<1>5. \A i, j \in DOMAIN tried' :
          i # j => tried'[i].key # tried'[j].key \/ tried'[i].model # tried'[j].model
  BY <1>1, <1>2, <1>3
<1>6. \A i \in DOMAIN tried' : i < n => tried'[i].outcome \in {"key", "unavailable"}
  BY <1>1, <1>2
<1> QED
  BY <1>b, <1>4, <1>5, <1>6

(* The combination that follows a failure.                                 *)
LEMMA NextInTurn ==
    ASSUME CallInv, KeyFault \/ Unavailable
    PROVE  /\ InTurn'
           /\ key' \in 1 .. Len(Keys) + 1 /\ model' \in DOMAIN Models
<1> PICK o \in {"key", "unavailable"} : /\ Attempted(o)
                                        /\ o = "key" => KeyFault
                                        /\ o = "unavailable" => Unavailable
  BY DEF KeyFault, Unavailable
<1>0. /\ o \in Outcomes
      /\ DOMAIN Models = 1 .. Len(Models) /\ Len(Models) \in Nat \ {0}
      /\ DOMAIN Keys = 1 .. Len(Keys) /\ Len(Keys) \in Nat /\ IsInjective(Keys)
  BY LanguageModelAssumption, ModelsAre DEF Outcomes
<1>k. /\ Len(tried') = Len(tried) + 1 /\ Len(tried) \in Nat
      /\ DOMAIN tried = 1 .. Len(tried) /\ DOMAIN tried' = 1 .. Len(tried')
      /\ \A i \in DOMAIN tried : i \in DOMAIN tried' /\ tried'[i] = tried[i]
      /\ tried'[Len(tried')] = [key |-> Keys[key], model |-> Models[model], outcome |-> o]
      /\ key \in DOMAIN Keys /\ model \in DOMAIN Models /\ InTurn
  BY <1>0, AttemptKeeps
<1>a. PICK n \in Nat : n = Len(tried) + 1
  BY <1>k
<1>b. n = Len(tried') /\ DOMAIN tried' = 1 .. n /\ DOMAIN tried = 1 .. n - 1
  BY <1>a, <1>k
<1>c. PICK k0 \in DOMAIN Keys : k0 = key
  BY <1>k
<1>1. /\ n \in DOMAIN tried' /\ tried'[n].key = Keys[k0] /\ tried'[n].model = Models[model]
      /\ tried'[n].outcome = o
      /\ \A i \in DOMAIN tried' : i # n => i \in DOMAIN tried
      /\ \A i \in DOMAIN tried : i \in DOMAIN tried' /\ tried'[i] = tried[i]
      /\ model \in DOMAIN Models /\ InTurn
  BY <1>0, <1>a, <1>b, <1>c, <1>k
<1>2. \A k \in DOMAIN Keys : k < k0 => Spent(Keys[k])'
  BY <1>0, <1>1, <1>c, SpentKept DEF InTurn
<1>3. ASSUME o = "unavailable", NEW m \in DOMAIN Models, m <= model PROVE Tried(k0, m)'
  <2>1. CASE m = model
    BY <1>1, <1>3, <2>1 DEF Tried
  <2>2. CASE m # model
    <3>1. Tried(k0, m)
      BY <1>0, <1>1, <1>3, <1>c, <2>2 DEF InTurn
    <3> QED
      BY <1>1, <3>1 DEF Tried
  <2> QED
    BY <2>1, <2>2
<1>4. ASSUME o = "key" \/ model = Len(Models)
      PROVE  Spent(Keys[k0])'
  <2>1. CASE o = "key"
    BY <1>1, <2>1 DEF Spent, Of
  <2>2. CASE o = "unavailable" /\ model = Len(Models)
    <3>1. ASSUME NEW x \in ToSet(Configured)
          PROVE  \E i \in Of(Keys[k0])' : /\ tried'[i].model = x
                                         /\ tried'[i].outcome = "unavailable"
      <4>1. PICK m \in DOMAIN Models : Models[m] = x
        BY ModelsAre DEF ToSet
      <4>2. Tried(k0, m)'
        BY <1>0, <1>3, <2>2
      <4> QED
        BY <4>1, <4>2 DEF Tried, Of
    <3> QED
      BY <3>1 DEF Spent
  <2> QED
    BY <1>4, <2>1, <2>2
<1>5. ASSUME NEW i \in DOMAIN tried'
      PROVE  /\ tried'[i].outcome \in {"key", "unavailable"}
             /\ \E k \in DOMAIN Keys, m \in DOMAIN Models :
                   /\ tried'[i].key = Keys[k] /\ tried'[i].model = Models[m]
                   /\ k < k0 \/ (k = k0 /\ m <= model)
  <2>1. CASE i = n
    BY <1>0, <1>1, <2>1
  <2>2. CASE i # n
    <3>1. i \in DOMAIN tried /\ tried'[i] = tried[i]
      BY <1>1, <2>2
    <3>2. /\ tried[i].outcome \in {"key", "unavailable"}
          /\ \E k \in DOMAIN Keys, m \in DOMAIN Models :
                /\ tried[i].key = Keys[k] /\ tried[i].model = Models[m]
                /\ k < key \/ (k = key /\ m < model)
      BY <1>1, <3>1 DEF InTurn
    <3> QED
      BY <1>0, <1>1, <1>c, <3>1, <3>2
  <2> QED
    BY <2>1, <2>2
<1>6. CASE o = "key" \/ model = Len(Models)
  <2>1. key' = k0 + 1 /\ model' = 1
    BY <1>0, <1>c, <1>6 DEF KeyFault, Unavailable
  <2>2. InTurn'
    BY <1>0, <1>1, <1>2, <1>4, <1>5, <1>6, <2>1 DEF InTurn
  <2> QED
    BY <1>0, <2>1, <2>2
<1>7. CASE o = "unavailable" /\ model # Len(Models)
  <2>1. key' = k0 /\ model' = model + 1 /\ model + 1 \in DOMAIN Models
    BY <1>0, <1>1, <1>c, <1>7 DEF Unavailable
  <2>2. \A m \in DOMAIN Models : m < model + 1 => Tried(k0, m)'
    BY <1>0, <1>1, <1>3, <1>7
  <2>3. InTurn'
    BY <1>0, <1>1, <1>2, <1>5, <2>1, <2>2 DEF InTurn
  <2> QED
    BY <1>0, <2>1, <2>3
<1> QED
  BY <1>6, <1>7
LEMMA StepInTurn == CallInv /\ [CallNext]_call => CallInv'
<1> SUFFICES ASSUME CallInv, [CallNext]_call PROVE CallInv'
  OBVIOUS
<1>1. CASE UNCHANGED call
  BY <1>1 DEF call, CallInv, FallbackInTurn, InTurn, Tried, Spent, Of
<1>2. CASE Answered \/ Unreadable \/ RequestFault
  <2>1. PICK o \in Outcomes : /\ Attempted(o)
                              /\ result' = "answer" \/ o \in {"request", "unreadable"}
    BY <1>2 DEF Answered, Unreadable, RequestFault, Outcomes
  <2>2. result' # "none" /\ UNCHANGED <<key, model>>
    BY <1>2 DEF Answered, Unreadable, RequestFault
  <2>3. result' = "raise" => Last(tried').outcome \in {"request", "unreadable"}
    <3>0. tried'[Len(tried')] = [key |-> Keys[key], model |-> Models[model], outcome |-> o]
      BY <2>1, AttemptKeeps
    <3>1. tried'[Len(tried')].outcome = o
      BY <3>0
    <3>2. Last(tried').outcome = o
      BY <3>1 DEF Last
    <3>3. result' = "raise" => result' # "answer"
      OBVIOUS
    <3> QED
      BY <2>1, <3>2, <3>3
  <2>4. FallbackInTurn'
    BY <2>1, <2>3, AttemptInTurn DEF FallbackInTurn
  <2> QED
    BY <2>1, <2>2, <2>4, AttemptKeeps DEF CallInv
<1>3. CASE KeyFault \/ Unavailable
  <2>1. PICK o \in Outcomes : Attempted(o)
    BY <1>3 DEF KeyFault, Unavailable, Outcomes
  <2>2. result' = "none"
    BY <1>3 DEF KeyFault, Unavailable, Attempted
  <2>3. FallbackInTurn'
    BY <2>1, <2>2, AttemptInTurn DEF FallbackInTurn
  <2> QED
    BY <1>3, <2>1, <2>3, AttemptKeeps, NextInTurn DEF CallInv
<1>4. CASE Exhausted
  <2>1. /\ UNCHANGED <<key, model, tried>> /\ result' = "raise" /\ InTurn
        /\ key > Len(Keys) /\ key \in Nat
    BY <1>4, LanguageModelAssumption DEF Exhausted, CallInv
  <2>2. \A k \in ToSet(Keys) : Spent(k)
    BY <2>1, LanguageModelAssumption DEF InTurn, ToSet
  <2>3. FallbackInTurn'
    BY <2>1, <2>2 DEF CallInv, FallbackInTurn, Spent, Of
  <2> QED
    BY <2>1, <2>3 DEF CallInv
<1> QED
  BY <1>1, <1>2, <1>3, <1>4 DEF CallNext

(* A call of the language model tries no combination of key and model      *)
(* twice, goes to a further key only when the one before has nothing left, *)
(* and raises only when nothing is left or nothing could help, for any     *)
(* keys and models that are configured (_generate).                        *)
THEOREM CallStaysInTurn == CallSpec => []FallbackInTurn
<1>1. CallInit => CallInv
  <2> SUFFICES ASSUME CallInit PROVE CallInv
    OBVIOUS
  <2>1. key = 1 /\ model = 1 /\ tried = <<>> /\ result = "none"
    BY DEF CallInit
  <2>2. /\ 1 \in DOMAIN Models /\ DOMAIN Models \subseteq Nat \ {0}
        /\ Len(Keys) \in Nat /\ DOMAIN Keys \subseteq Nat \ {0}
    BY ModelsAre, LanguageModelAssumption
  <2>3. FallbackInTurn
    BY <2>1 DEF FallbackInTurn, Of
  <2>4. InTurn
    BY <2>1, <2>2 DEF InTurn
  <2> QED
    BY <2>1, <2>2, <2>3, <2>4 DEF CallInv
<1>2. CallInv => FallbackInTurn
  BY DEF CallInv
<1> QED
  BY <1>1, <1>2, StepInTurn, PTL DEF CallSpec
-----------------------------------------------------------------------------
(* The chunker. First, where the pieces of a window end.                   *)

NextEnd(w, f, i) == IF i = 0 THEN w.start ELSE f[i - 1] + w.pieces[i]

LEMMA EndsExist ==
    ASSUME NEW w, NEW L \in Nat
    PROVE  \E f : f = [i \in 0 .. L |-> NextEnd(w, f, i)]
<1> DEFINE S == {n \in 0 .. L : \E f : f = [i \in 0 .. n |-> NextEnd(w, f, i)]}
<1>1. 0 \in S
  <2> DEFINE f == [i \in 0 .. 0 |-> w.start]
  <2>1. f = [i \in 0 .. 0 |-> NextEnd(w, f, i)]
    BY DEF NextEnd
  <2> QED
    BY <2>1
<1>2. ASSUME NEW n \in 0 .. L - 1, n \in S PROVE n + 1 \in S
  <2>1. PICK f : f = [i \in 0 .. n |-> NextEnd(w, f, i)]
    BY <1>2
  <2> DEFINE g == [i \in 0 .. n + 1 |-> IF i <= n THEN f[i] ELSE NextEnd(w, f, i)]
  <2>2. \A i \in 0 .. n : g[i] = f[i]
    OBVIOUS
  <2>3. ASSUME NEW i \in 0 .. n + 1 PROVE g[i] = NextEnd(w, g, i)
    <3>1. i = 0 \/ g[i - 1] = f[i - 1]
      BY <2>2
    <3>2. NextEnd(w, g, i) = NextEnd(w, f, i)
      BY <3>1 DEF NextEnd
    <3>3. g[i] = NextEnd(w, f, i)
      BY <2>1
    <3> QED
      BY <3>2, <3>3
  <2>4. g = [i \in 0 .. n + 1 |-> NextEnd(w, g, i)]
    BY <2>3
  <2> HIDE DEF g
  <2> QED
    BY <2>4
<1> HIDE DEF S
<1>3. 0 .. L \subseteq S
  BY <1>1, <1>2, UpTo
<1> QED
  BY <1>3 DEF S

(* Ends never decrease, and are numbers.                                   *)
LEMMA EndsGrow ==
    ASSUME NEW w, w.start \in Nat, w.pieces \in Seq(Nat),
           NEW f, \A i \in 0 .. Len(w.pieces) : f[i] = NextEnd(w, f, i)
    PROVE  /\ \A i \in 0 .. Len(w.pieces) : f[i] \in Nat
           /\ \A i \in 1 .. Len(w.pieces) : f[i - 1] <= f[i]
           /\ \A i, j \in 0 .. Len(w.pieces) : i <= j => f[i] <= f[j]
<1> DEFINE L == Len(w.pieces)
           S == {n \in 0 .. L : f[n] \in Nat}
<1>0. L \in Nat /\ \A i \in 1 .. L : w.pieces[i] \in Nat
  OBVIOUS
<1>1. 0 \in S
  BY <1>0 DEF NextEnd
<1>2. ASSUME NEW n \in 0 .. L - 1, n \in S PROVE n + 1 \in S
  <2>1. n + 1 \in 0 .. L /\ n + 1 # 0 /\ (n + 1) - 1 = n /\ w.pieces[n + 1] \in Nat
    BY <1>0
  <2>2. f[n + 1] = f[n] + w.pieces[n + 1]
    BY <2>1 DEF NextEnd
  <2> QED
    BY <1>2, <2>1, <2>2
<1> HIDE DEF S
<1>3. 0 .. L \subseteq S
  BY <1>0, <1>1, <1>2, UpTo
<1>4. \A i \in 0 .. L : f[i] \in Nat
  BY <1>3 DEF S
<1>5. ASSUME NEW i \in 1 .. L PROVE f[i - 1] <= f[i]
  <2>1. i \in 0 .. L /\ i # 0 /\ i - 1 \in 0 .. L /\ w.pieces[i] \in Nat
    BY <1>0
  <2>2. f[i] = f[i - 1] + w.pieces[i]
    BY <2>1 DEF NextEnd
  <2> QED
    BY <1>4, <2>1, <2>2
<1>6. ASSUME NEW i \in 0 .. L PROVE \A j \in 0 .. L : i <= j => f[i] <= f[j]
  <2> DEFINE T == {n \in 0 .. L : i <= n => f[i] <= f[n]}
  <2>1. 0 \in T
    BY <1>0, <1>4
  <2>2. ASSUME NEW n \in 0 .. L - 1, n \in T PROVE n + 1 \in T
    <3>1. n + 1 \in 1 .. L /\ n + 1 \in 0 .. L /\ n \in 0 .. L /\ (n + 1) - 1 = n
      BY <1>0
    <3>2. f[n] <= f[n + 1] /\ f[n] \in Nat /\ f[n + 1] \in Nat /\ f[i] \in Nat
      BY <1>4, <1>5, <3>1
    <3>3. CASE i <= n
      BY <2>2, <3>1, <3>2, <3>3
    <3>4. CASE ~(i <= n)
      <4>1. i = n + 1 \/ ~(i <= n + 1)
        BY <3>4
      <4> QED
        BY <3>1, <3>2, <4>1
    <3> QED
      BY <3>3, <3>4
  <2> HIDE DEF T
  <2>3. 0 .. L \subseteq T
    BY <1>0, <2>1, <2>2, UpTo
  <2> QED
    BY <2>3 DEF T
<1> QED
  BY <1>4, <1>5, <1>6

(* A set of numbers that is closed downwards is the first ones.            *)
LEMMA FirstOnes ==
    ASSUME NEW L \in Nat, NEW G \in SUBSET (1 .. L),
           \A i \in G : \A j \in 1 .. i : j \in G
    PROVE  Cardinality(G) \in 0 .. L /\ G = 1 .. Cardinality(G)
<1> DEFINE T == {i \in Nat \ {0} : i \notin G}
<1>1. L + 1 \in T /\ T \in SUBSET Nat
  OBVIOUS
<1>2. PICK m \in T : \A n \in T : m <= n
  BY <1>1, LeastMember
<1>3. m \in Nat \ {0} /\ m \notin G /\ m <= L + 1
  BY <1>1, <1>2
<1>4. \A i \in 1 .. m - 1 : i \in G
  BY <1>2, <1>3
<1>5. \A i \in G : i < m
  BY <1>3
<1>6. G = 1 .. m - 1
  <2>1. \A i \in G : i \in 1 .. m - 1
    <3> TAKE i \in G
    <3>1. i \in Nat \ {0} /\ i < m
      BY <1>5
    <3> QED
      BY <1>3, <3>1
  <2> QED
    BY <1>4, <2>1
<1>7. Cardinality(1 .. m - 1) = m - 1
  BY <1>3, FS_Interval
<1> QED
  BY <1>3, <1>6, <1>7
(* The window keeps all that is after keepFrom.                            *)
LEMMA TrimKeeps ==
    ASSUME NEW w, NEW T, w \in [pieces : Seq(Nat), start : Nat, sent : T],
           NEW keepFrom \in Nat, w.start <= keepFrom
    PROVE  /\ _trimWindowBefore(w, keepFrom) \in [pieces : Seq(Nat), start : Nat, sent : T]
           /\ _trimWindowBefore(w, keepFrom).start <= keepFrom
           /\ _trimWindowBefore(w, keepFrom).sent = w.sent
<1> DEFINE L == Len(w.pieces)
           E == CHOOSE f : f = [i \in 0 .. L |-> IF i = 0 THEN w.start ELSE f[i - 1] + w.pieces[i]]
           G == {i \in 1 .. L : E[i] <= keepFrom}
           g == Cardinality(G)
<1>0. L \in Nat /\ w.pieces \in Seq(Nat) /\ w.start \in Nat
  OBVIOUS
<1>1. \A i \in 0 .. L : E[i] = NextEnd(w, E, i)
  <2>1. E = [i \in 0 .. L |-> NextEnd(w, E, i)]
    BY <1>0, EndsExist DEF NextEnd
  <2> HIDE DEF E
  <2> QED
    BY <2>1
<1>2. _trimWindowBefore(w, keepFrom) =
          [w EXCEPT !.pieces = SubSeq(w.pieces, g + 1, L), !.start = E[g]]
  BY DEF _trimWindowBefore
<1> HIDE DEF E
<1>3. /\ \A i \in 0 .. L : E[i] \in Nat
      /\ \A i, j \in 0 .. L : i <= j => E[i] <= E[j]
  BY <1>0, <1>1, EndsGrow
<1>4. g \in 0 .. L /\ G = 1 .. g
  <2>1. ASSUME NEW i \in G, NEW j \in 1 .. i PROVE j \in G
    <3>1. i \in 0 .. L /\ j \in 0 .. L /\ j \in 1 .. L /\ j <= i /\ E[i] <= keepFrom
      BY <1>0
    <3>2. E[j] <= E[i] /\ E[i] \in Nat /\ E[j] \in Nat
      BY <1>3, <3>1
    <3> QED
      BY <3>1, <3>2
  <2> HIDE DEF G
  <2>2. G \in SUBSET (1 .. L)
    BY DEF G
  <2> QED
    BY <1>0, <2>1, <2>2, FirstOnes
<1>5. E[g] <= keepFrom
  <2>1. CASE g = 0
    BY <1>0, <1>1, <2>1 DEF NextEnd
  <2>2. CASE g # 0
    <3> HIDE DEF g, G
    <3>1. g \in G
      BY <1>0, <1>4, <2>2
    <3> QED
      BY <3>1 DEF G
  <2> QED
    BY <2>1, <2>2
<1>6. SubSeq(w.pieces, g + 1, L) \in Seq(Nat)
  <2>1. \A i \in g + 1 .. L : w.pieces[i] \in Nat
    BY <1>0, <1>4
  <2> HIDE DEF g
  <2> QED
    BY <1>0, <1>4, <2>1
<1> HIDE DEF g, G
<1> QED
  BY <1>2, <1>3, <1>4, <1>5, <1>6

(* A chunk is cut while the window still holds its beginning.              *)
LEMMA EmitKeeps ==
    ASSUME NEW w, WindowInv(w), NEW endAt \in Int
    PROVE  LET n == Len(w.sent)
               e == _emit(w, endAt)
           IN  /\ e \in [pieces : Seq(Nat), start : Nat, sent : Seq(Chunk)]
               /\ e.start <= Begin(n + 1) /\ n \in Nat /\ Len(e.sent) = n + 1
               /\ \A i \in 1 .. n : e.sent[i] = w.sent[i]
               /\ IsChunk(e.sent[n + 1], n + 1) /\ e.sent[n + 1].audio.to = endAt
<1> DEFINE n       == Len(w.sent)
           overlap == IF n = 0 THEN 0 ELSE OVERLAP_SEC
           from    == n * CHUNK_SEC - overlap
           chunk   == [offset |-> from, overlap |-> overlap, duration |-> endAt - from,
                       audio |-> _slice(w, from, endAt)]
           longer  == [w EXCEPT !.sent = Append(w.sent, chunk)]
           e       == _emit(w, endAt)
<1>0. /\ n \in Nat /\ w \in [pieces : Seq(Nat), start : Nat, sent : Seq(Chunk)]
      /\ w.start <= Begin(n)
  BY DEF WindowInv
<1>1. from = Begin(n) /\ from \in Nat /\ overlap \in Nat /\ from + overlap = n * CHUNK_SEC
  BY <1>0 DEF Begin, KeepFrom, CHUNK_SEC, OVERLAP_SEC
<1>2. chunk \in Chunk /\ IsChunk(chunk, n + 1) /\ chunk.audio.to = endAt
  <2>1. _slice(w, from, endAt) = [from |-> from, to |-> endAt]
    BY <1>0, <1>1 DEF _slice, LargerOf
  <2> HIDE DEF from, overlap, n
  <2>2. /\ chunk.offset = from /\ chunk.overlap = overlap /\ chunk.duration = endAt - from
        /\ chunk.audio = [from |-> from, to |-> endAt]
    BY <2>1
  <2>3. chunk \in Chunk
    BY <1>1, <2>1 DEF Chunk
  <2>4. (n + 1) - 1 = n /\ from + (endAt - from) = endAt
    BY <1>0, <1>1
  <2> HIDE DEF chunk
  <2> QED
    BY <1>1, <2>2, <2>3, <2>4 DEF IsChunk
<1> HIDE DEF chunk, from, overlap
<1>3. /\ longer \in [pieces : Seq(Nat), start : Nat, sent : Seq(Chunk)]
      /\ longer.start = w.start /\ longer.sent = Append(w.sent, chunk)
  <2>1. Append(w.sent, chunk) \in Seq(Chunk)
    BY <1>0, <1>2
  <2> QED
    BY <1>0, <2>1
<1>4. KeepFrom(n + 1) \in Nat /\ Begin(n + 1) = KeepFrom(n + 1) /\ Begin(n) <= KeepFrom(n + 1)
      /\ Begin(n) \in Nat
  BY <1>0 DEF Begin, KeepFrom, CHUNK_SEC, OVERLAP_SEC
<1>5. e = _trimWindowBefore(longer, KeepFrom(n + 1))
  BY DEF _emit, chunk, from, overlap
<1> HIDE DEF longer, e
<1>6. longer.start <= KeepFrom(n + 1)
  BY <1>0, <1>3, <1>4
<1>7. /\ e \in [pieces : Seq(Nat), start : Nat, sent : Seq(Chunk)]
      /\ e.start <= KeepFrom(n + 1) /\ e.sent = Append(w.sent, chunk)
  BY <1>3, <1>4, <1>5, <1>6, TrimKeeps
<1>8. /\ Len(e.sent) = n + 1 /\ e.sent[n + 1] = chunk
      /\ \A i \in 1 .. n : e.sent[i] = w.sent[i]
  BY <1>0, <1>2, <1>7
<1> QED
  BY <1>0, <1>2, <1>4, <1>7, <1>8 DEF e

(* The loop of add().                                                      *)
NextAfter(w, f, k) == IF k = 0 THEN w ELSE _emit(f[k - 1], (Len(w.sent) + k) * CHUNK_SEC)

LEMMA AfterExists ==
    ASSUME NEW w, NEW L \in Nat
    PROVE  \E f : f = [i \in 0 .. L |-> NextAfter(w, f, i)]
<1> DEFINE S == {n \in 0 .. L : \E f : f = [i \in 0 .. n |-> NextAfter(w, f, i)]}
<1>1. 0 \in S
  <2> DEFINE f == [i \in 0 .. 0 |-> w]
  <2>1. f = [i \in 0 .. 0 |-> NextAfter(w, f, i)]
    BY DEF NextAfter
  <2> QED
    BY <2>1
<1>2. ASSUME NEW n \in 0 .. L - 1, n \in S PROVE n + 1 \in S
  <2>1. PICK f : f = [i \in 0 .. n |-> NextAfter(w, f, i)]
    BY <1>2
  <2> DEFINE g == [i \in 0 .. n + 1 |-> IF i <= n THEN f[i] ELSE NextAfter(w, f, i)]
  <2>2. \A i \in 0 .. n : g[i] = f[i]
    OBVIOUS
  <2>3. ASSUME NEW i \in 0 .. n + 1 PROVE g[i] = NextAfter(w, g, i)
    <3>1. i = 0 \/ g[i - 1] = f[i - 1]
      BY <2>2
    <3>2. NextAfter(w, g, i) = NextAfter(w, f, i)
      BY <3>1 DEF NextAfter
    <3>3. g[i] = NextAfter(w, f, i)
      BY <2>1
    <3> QED
      BY <3>2, <3>3
  <2>4. g = [i \in 0 .. n + 1 |-> NextAfter(w, g, i)]
    BY <2>3
  <2> HIDE DEF g
  <2> QED
    BY <2>4
<1> HIDE DEF S
<1>3. 0 .. L \subseteq S
  BY <1>1, <1>2, UpTo
<1> QED
  BY <1>3 DEF S

LEMMA EmitsKeep ==
    ASSUME NEW w, WindowInv(w), NEW L \in Nat
    PROVE  WindowInv(Emits(w, L)) /\ Len(Emits(w, L).sent) = Len(w.sent) + L
<1>0. PICK N \in Nat : N = Len(w.sent)
  BY DEF WindowInv
<1> DEFINE After == CHOOSE f : f = [k \in 0 .. L |->
               IF k = 0 THEN w ELSE _emit(f[k - 1], (Len(w.sent) + k) * CHUNK_SEC)]
           S == {k \in 0 .. L : WindowInv(After[k]) /\ Len(After[k].sent) = N + k}
<1>1. \A k \in 0 .. L : After[k] = NextAfter(w, After, k)
  <2>1. After = [k \in 0 .. L |-> NextAfter(w, After, k)]
    BY AfterExists DEF NextAfter
  <2> HIDE DEF After
  <2> QED
    BY <2>1
<1>2. Emits(w, L) = After[L]
  BY DEF Emits
<1> HIDE DEF After
<1>3. 0 \in S
  BY <1>0, <1>1 DEF NextAfter
<1>4. ASSUME NEW k \in 0 .. L - 1, k \in S PROVE k + 1 \in S
  <2> DEFINE n   == N + k
             old == After[k]
             new == After[k + 1]
  <2>0. k \in Nat /\ N + (k + 1) = n + 1
    OBVIOUS
  <2>1. WindowInv(old) /\ Len(old.sent) = n /\ n \in Nat /\ k + 1 \in 0 .. L
    BY <1>0, <1>4
  <2>2. new = _emit(old, (n + 1) * CHUNK_SEC)
    <3>1. k + 1 # 0 /\ (k + 1) - 1 = k
      BY <2>0
    <3> QED
      BY <1>0, <1>1, <2>0, <2>1, <3>1 DEF NextAfter
  <2> HIDE DEF old, new, n
  <2>3. (n + 1) * CHUNK_SEC \in Int
    BY <2>1 DEF CHUNK_SEC
  <2>4. /\ new \in [pieces : Seq(Nat), start : Nat, sent : Seq(Chunk)]
        /\ new.start <= Begin(n + 1) /\ Len(new.sent) = n + 1
        /\ \A i \in 1 .. n : new.sent[i] = old.sent[i]
        /\ IsChunk(new.sent[n + 1], n + 1) /\ new.sent[n + 1].audio.to = (n + 1) * CHUNK_SEC
    BY <2>1, <2>2, <2>3, EmitKeeps
  <2>5. \A i \in 1 .. n : IsChunk(old.sent[i], i) /\ old.sent[i].audio.to = i * CHUNK_SEC
    BY <2>1 DEF WindowInv
  <2>6. \A i \in DOMAIN new.sent :
            IsChunk(new.sent[i], i) /\ new.sent[i].audio.to = i * CHUNK_SEC
    <3> TAKE i \in DOMAIN new.sent
    <3>1. i \in 1 .. n \/ i = n + 1
      BY <2>1, <2>4
    <3> QED
      BY <2>4, <2>5, <3>1
  <2>7. WindowInv(new)
    BY <2>4, <2>6 DEF WindowInv
  <2>8. Len(new.sent) = N + (k + 1)
    BY <2>0, <2>4
  <2> QED
    BY <2>1, <2>7, <2>8 DEF new
<1> HIDE DEF S
<1>5. 0 .. L \subseteq S
  BY <1>3, <1>4, UpTo
<1> QED
  BY <1>0, <1>2, <1>5 DEF S

(* The chunks of a window are what ChunkHoldsItsAudio asks for.            *)
LEMMA ChunksHold ==
    ASSUME NEW chunks, chunks \in Seq(Chunk),
           \A i \in DOMAIN chunks : IsChunk(chunks[i], i),
           \A i \in DOMAIN chunks : i < Len(chunks) => chunks[i].audio.to = i * CHUNK_SEC
    PROVE  \A i \in DOMAIN chunks :
              /\ chunks[i].audio.from = chunks[i].offset
              /\ chunks[i].audio.to = chunks[i].offset + chunks[i].duration
              /\ i > 1 => chunks[i].offset + chunks[i].overlap = chunks[i - 1].audio.to
<1> TAKE i \in DOMAIN chunks
<1>1. IsChunk(chunks[i], i) /\ i \in 1 .. Len(chunks) /\ Len(chunks) \in Nat
  OBVIOUS
<1>2. ASSUME i > 1 PROVE chunks[i].offset + chunks[i].overlap = chunks[i - 1].audio.to
  <2>1. i - 1 \in DOMAIN chunks /\ i - 1 < Len(chunks)
    BY <1>1, <1>2
  <2>2. chunks[i - 1].audio.to = (i - 1) * CHUNK_SEC
    BY <2>1
  <2> QED
    BY <1>1, <2>2 DEF IsChunk
<1> QED
  BY <1>1, <1>2 DEF IsChunk

LEMMA AddKeeps ==
    ASSUME RecorderInv, NEW n \in Pieces, Add(n)
    PROVE  RecorderInv'
<1> DEFINE old  == [pieces |-> window, start |-> windowStart, sent |-> sent]
           w    == [pieces |-> Append(window, n), start |-> windowStart, sent |-> sent]
           full == (total + n) \div CHUNK_SEC
           L    == full - Len(sent)
           done == Emits(w, L)
<1>0. /\ Recording /\ n \in Nat /\ total \in Nat /\ Len(sent) = total \div CHUNK_SEC
      /\ WindowInv(old)
  BY RecordingAssumption DEF RecorderInv, Add
<1>1. /\ window \in Seq(Nat) /\ windowStart \in Nat /\ sent \in Seq(Chunk)
      /\ windowStart <= Begin(Len(sent))
      /\ \A i \in DOMAIN sent : IsChunk(sent[i], i) /\ sent[i].audio.to = i * CHUNK_SEC
  BY <1>0 DEF WindowInv
<1>2. WindowInv(w)
  <2>1. w \in [pieces : Seq(Nat), start : Nat, sent : Seq(Chunk)]
    BY <1>0, <1>1
  <2> QED
    BY <1>1, <2>1 DEF WindowInv
<1>3. L \in Nat /\ total + n \in Nat /\ full = Len(sent) + L
  BY <1>0 DEF CHUNK_SEC
<1>4. /\ total' = total + n /\ window' = done.pieces /\ windowStart' = done.start
      /\ sent' = done.sent /\ talk' = talk
  BY DEF Add
<1> HIDE DEF L, full
<1>5. WindowInv(done) /\ Len(done.sent) = full
  BY <1>2, <1>3, EmitsKeep
<1> HIDE DEF done, w
<1>6. /\ done = [pieces |-> window', start |-> windowStart', sent |-> sent']
      /\ sent' \in Seq(Chunk)
  BY <1>4, <1>5 DEF WindowInv
<1>7. total' \in Nat /\ Len(sent') = total' \div CHUNK_SEC
  BY <1>3, <1>4, <1>5 DEF full
<1>8. \A i \in DOMAIN sent' :
          IsChunk(sent'[i], i) /\ sent'[i].audio.to = i * CHUNK_SEC
  BY <1>4, <1>5 DEF WindowInv
<1>9. ChunkHoldsItsAudio'
  BY <1>6, <1>8, ChunksHold DEF ChunkHoldsItsAudio
<1>10. Recording'
  BY <1>0, <1>4 DEF Recording
<1> QED
  BY <1>5, <1>6, <1>7, <1>9, <1>10 DEF RecorderInv

LEMMA FlushKeeps ==
    ASSUME RecorderInv, Flush
    PROVE  RecorderInv'
<1> DEFINE w == [pieces |-> window, start |-> windowStart, sent |-> sent]
           e == _emit(w, total)
           n == Len(sent)
<1>0. /\ total \in Nat /\ WindowInv(w) /\ ChunkHoldsItsAudio /\ n = total \div CHUNK_SEC
      /\ sent' = IF total <= n * CHUNK_SEC THEN sent ELSE e.sent
      /\ talk' \in Talks /\ Last(talk').end <= total /\ total' = total /\ total > 0
  BY DEF RecorderInv, Flush
<1>1. ~Recording'
  BY <1>0, TalkAssumption DEF Recording
<1>2. /\ sent \in Seq(Chunk) /\ n \in Nat /\ DOMAIN sent = 1 .. n
      /\ \A i \in 1 .. n : IsChunk(sent[i], i) /\ sent[i].audio.to = i * CHUNK_SEC
  BY <1>0 DEF WindowInv
<1>3. n * 120 <= total /\ total < (n + 1) * 120 /\ CHUNK_SEC = 120
  BY <1>0 DEF CHUNK_SEC
<1>4. CASE total <= n * CHUNK_SEC
  <2>1. sent' = sent
    BY <1>0, <1>4
  <2>2. n > 0 /\ sent # <<>>
    <3>1. n > 0
      BY <1>0, <1>2, <1>3, <1>4
    <3>2. sent = <<>> => n = 0
      OBVIOUS
    <3> QED
      BY <3>1, <3>2
  <2>3. (n - 1) * CHUNK_SEC < total /\ total <= n * CHUNK_SEC
    BY <1>0, <1>2, <1>3, <1>4
  <2>4. ASSUME NEW i \in 1 .. n PROVE i * CHUNK_SEC = LeastOf(total, i * CHUNK_SEC)
    BY <1>0, <1>2, <1>3 DEF LeastOf
  <2>5. Minutes(sent, total)
    BY <1>2, <2>2, <2>3, <2>4 DEF Minutes
  <2> QED
    BY <1>0, <1>1, <2>1, <2>5 DEF RecorderInv, ChunkHoldsItsAudio
<1>5. CASE total > n * CHUNK_SEC
  <2>1. sent' = e.sent
    BY <1>0, <1>2, <1>3, <1>5
  <2>2. /\ e \in [pieces : Seq(Nat), start : Nat, sent : Seq(Chunk)]
        /\ Len(e.sent) = n + 1
        /\ \A i \in 1 .. n : e.sent[i] = sent[i]
        /\ IsChunk(e.sent[n + 1], n + 1) /\ e.sent[n + 1].audio.to = total
    BY <1>0, EmitKeeps
  <2> HIDE DEF e, n
  <2>s. DOMAIN e.sent = 1 .. n + 1
    BY <1>2, <2>2
  <2>3. \A i \in DOMAIN e.sent : i \in 1 .. n \/ i = n + 1
    BY <1>2, <2>s
  <2>4. /\ e.sent \in Seq(Chunk)
        /\ \A i \in DOMAIN e.sent : IsChunk(e.sent[i], i)
        /\ \A i \in DOMAIN e.sent : i < Len(e.sent) => e.sent[i].audio.to = i * CHUNK_SEC
    <3>1. \A i \in 1 .. n : IsChunk(e.sent[i], i) /\ e.sent[i].audio.to = i * CHUNK_SEC
      BY <1>2, <2>2
    <3>2. e.sent \in Seq(Chunk)
      BY <2>2
    <3>3. \A i \in DOMAIN e.sent : i < Len(e.sent) => i \in 1 .. n
      BY <1>2, <2>2, <2>s
    <3> QED
      BY <2>2, <2>3, <3>1, <3>2, <3>3
  <2>5. ChunkHoldsItsAudio'
    BY <2>1, <2>4, ChunksHold DEF ChunkHoldsItsAudio
  <2>6. ASSUME NEW i \in DOMAIN e.sent
        PROVE  e.sent[i].audio.to = LeastOf(total, i * CHUNK_SEC)
    <3>1. CASE i \in 1 .. n
      <4>1. e.sent[i].audio.to = i * CHUNK_SEC
        BY <1>2, <2>2, <3>1
      <4>2. i * CHUNK_SEC \in Int /\ i * CHUNK_SEC < total
        BY <1>0, <1>2, <1>3, <1>5, <3>1
      <4> QED
        BY <1>0, <4>1, <4>2 DEF LeastOf
    <3>2. CASE i = n + 1
      BY <1>0, <1>2, <1>3, <2>2, <3>2 DEF LeastOf
    <3> QED
      BY <2>3, <3>1, <3>2
  <2>7. /\ ((n + 1) - 1) * CHUNK_SEC < total /\ total <= (n + 1) * CHUNK_SEC
        /\ e.sent # <<>>
    BY <1>0, <1>2, <1>3, <1>5, <2>2
  <2>8. Minutes(e.sent, total)
    BY <2>2, <2>4, <2>6, <2>7 DEF Minutes
  <2> QED
    BY <1>0, <1>1, <2>1, <2>5, <2>8 DEF RecorderInv
<1> QED
  BY <1>0, <1>2, <1>3, <1>4, <1>5

LEMMA RecorderKeeps == RecorderSpec => []RecorderInv
<1>1. RecorderInit => RecorderInv
  <2> SUFFICES ASSUME RecorderInit PROVE RecorderInv
    OBVIOUS
  <2>1. talk = <<>> /\ window = <<>> /\ windowStart = 0 /\ total = 0 /\ sent = <<>>
    BY DEF RecorderInit
  <2>2. WindowInv([pieces |-> window, start |-> windowStart, sent |-> sent])
    BY <2>1 DEF WindowInv, Begin
  <2> QED
    BY <2>1, <2>2 DEF RecorderInv, ChunkHoldsItsAudio, Recording, CHUNK_SEC
<1>2. RecorderInv /\ [RecorderNext]_recorder => RecorderInv'
  <2> SUFFICES ASSUME RecorderInv, [RecorderNext]_recorder PROVE RecorderInv'
    OBVIOUS
  <2>1. CASE UNCHANGED recorder
    BY <2>1 DEF recorder, RecorderInv, ChunkHoldsItsAudio, Recording
  <2> QED
    BY <2>1, AddKeeps, FlushKeeps DEF RecorderNext
<1> QED
  BY <1>1, <1>2, PTL DEF RecorderSpec

(* Every chunk holds the audio it announces, and begins one overlap before *)
(* the end of the one before it, for pieces of any length from the         *)
(* microphone and recordings of any length (add, flush, _trimWindowBefore).*)
THEOREM ChunksWhole == RecorderSpec => []ChunkHoldsItsAudio
<1>1. RecorderInv => ChunkHoldsItsAudio
  BY DEF RecorderInv
<1> QED
  BY <1>1, RecorderKeeps, PTL
-----------------------------------------------------------------------------
(* The windows of a file (Stt), for recordings of every length: whatever   *)
(* border a word falls on, one window keeps it, and that one heard it      *)
(* whole.                                                                  *)

(* The stamp of the word from s to e in the window w, in the time of the   *)
(* recording.                                                              *)
Stamp(s, e, w) == [start |-> LargerOf(s, w.from), end |-> LeastOf(e, w.to)]

(* _shift_and_trim keeps the stamp of the word in the i-th of n windows.   *)
Keeps(i, n, s, e, w) ==
    Within(Stamp(s, e, w), w.from + OVERLAP_SEC \div 2,
           w.from + CHUNK_SEC + OVERLAP_SEC \div 2, i = 1, i = n)

(* A window hears some of the word.                                        *)
Hears(s, e, w) == s < w.to /\ e > w.from

(* How many windows there are, and where they lie.                         *)
LEMMA Windows ==
    ASSUME NEW length \in Nat, length > CHUNK_SEC + OVERLAP_SEC
    PROVE  \E n \in Nat \ {0} :
              /\ Len(_split_wav(length)) = n
              /\ \A i \in 1 .. n : _split_wav(length)[i] = Window(i - 1, length)
              /\ (n - 1) * CHUNK_SEC + OVERLAP_SEC < length
              /\ length <= n * CHUNK_SEC + OVERLAP_SEC
<1> DEFINE last == (length - OVERLAP_SEC - 1) \div CHUNK_SEC
<1>1. /\ last \in Nat
      /\ last * 120 + 8 < length
      /\ length <= (last + 1) * 120 + 8
  BY DEF CHUNK_SEC, OVERLAP_SEC
<1>2. WindowNumbers(length) = 0 .. last
  BY <1>1 DEF WindowNumbers, CHUNK_SEC, OVERLAP_SEC
<1> HIDE DEF last
<1>3. Cardinality(WindowNumbers(length)) = last + 1
  <2>1. 0 \in Int /\ last \in Int /\ 0 <= last
    BY <1>1
  <2>2. Cardinality(0 .. last) = last - 0 + 1
    BY <2>1, FS_Interval
  <2> QED
    BY <1>2, <1>1, <2>2
<1>4. _split_wav(length) = [k \in 1 .. last + 1 |-> Window(k - 1, length)]
  BY <1>3 DEF _split_wav, CHUNK_SEC, OVERLAP_SEC
<1>5. Len(_split_wav(length)) = last + 1
  BY <1>1, <1>4
<1> QED
  BY <1>1, <1>4, <1>5 DEF CHUNK_SEC, OVERLAP_SEC

(* Every word of at most the overlap's length is kept by one window, which *)
(* has heard it from its start to its end, and dropped by every other      *)
(* window that heard some of it: nothing is lost, repeated or halved at a  *)
(* border (_split_wav, _shift_and_trim).                                   *)
THEOREM KeptOnceAndWhole ==
    ASSUME NEW length \in Nat, NEW s \in Nat, NEW e \in Nat,
           s < e, e <= length, e - s <= OVERLAP_SEC
    PROVE  LET ws == _split_wav(length)
               n  == Len(ws)
           IN  \E i \in 1 .. n :
                 /\ ws[i].from <= s /\ e <= ws[i].to
                 /\ Keeps(i, n, s, e, ws[i])
                 /\ \A j \in 1 .. n \ {i} :
                       Hears(s, e, ws[j]) => ~Keeps(j, n, s, e, ws[j])
<1>1. CASE length <= CHUNK_SEC + OVERLAP_SEC
  <2>1. _split_wav(length) = <<[from |-> 0, to |-> length]>>
    BY <1>1 DEF _split_wav
  <2> QED
    BY <2>1 DEF Keeps, Within
<1>2. CASE length > CHUNK_SEC + OVERLAP_SEC
  <2>1. PICK n \in Nat \ {0} :
              /\ Len(_split_wav(length)) = n
              /\ \A i \in 1 .. n : _split_wav(length)[i] = Window(i - 1, length)
              /\ (n - 1) * CHUNK_SEC + OVERLAP_SEC < length
              /\ length <= n * CHUNK_SEC + OVERLAP_SEC
    BY <1>2, Windows
  <2> DEFINE mid == (s + e - 8) \div 240 + 1
             own == IF s + e < 8 THEN 1 ELSE IF mid > n THEN n ELSE mid
  <2>2. /\ own \in 1 .. n
        /\ own = 1 \/ 240 * (own - 1) + 8 <= s + e
        /\ own = n \/ s + e < 240 * own + 8
    <3>1. CASE s + e < 8
      BY <3>1
    <3>2. CASE s + e >= 8
      <4>1. mid \in Nat /\ mid >= 1 /\ 240 * (mid - 1) + 8 <= s + e /\ s + e < 240 * mid + 8
        BY <3>2
      <4> HIDE DEF mid
      <4> QED
        BY <3>2, <4>1
    <3> QED
      BY <3>1, <3>2
  <2> HIDE DEF own
  <2>3. \A i \in 1 .. n : /\ _split_wav(length)[i].from = 120 * (i - 1)
                          /\ _split_wav(length)[i].to = IF length < 120 * i + 8 THEN length
                                                       ELSE 120 * i + 8
    BY <2>1 DEF Window, LeastOf, CHUNK_SEC, OVERLAP_SEC
  <2>4. e - s <= 8 /\ (n - 1) * 120 + 8 < length /\ length <= n * 120 + 8
    BY <2>1 DEF OVERLAP_SEC, CHUNK_SEC
  <2>5. 120 * (own - 1) <= s /\ e <= _split_wav(length)[own].to
    BY <2>2, <2>3, <2>4
  <2>6. Keeps(own, n, s, e, _split_wav(length)[own])
    BY <2>2, <2>3, <2>5
       DEF Keeps, Within, Stamp, LargerOf, LeastOf, CHUNK_SEC, OVERLAP_SEC
  <2>7. ASSUME NEW j \in 1 .. n \ {own}, Hears(s, e, _split_wav(length)[j])
        PROVE  ~Keeps(j, n, s, e, _split_wav(length)[j])
    <3> DEFINE w == _split_wav(length)[j]
    <3>1. /\ w.from \in Int /\ w.to \in Int /\ w.from = 120 * (j - 1)
          /\ w.to = length \/ w.to = 120 * j + 8
          /\ w.to <= length /\ w.to <= 120 * j + 8
          /\ s < w.to /\ e > w.from
      BY <2>3, <2>7 DEF Hears
    <3> HIDE DEF w
    <3>2. CASE j < own
      <4> SUFFICES ~Keeps(j, n, s, e, w)
        BY DEF w
      <4>1. j # n /\ 240 * j + 8 <= s + e
        BY <2>2, <3>2
      <4>2. LargerOf(s, w.from) = s
        BY <3>1, <4>1, <2>4 DEF LargerOf
      <4>3. LeastOf(e, w.to) \in Int /\ s + LeastOf(e, w.to) >= 240 * j + 8
        BY <3>1, <4>1, <2>4, <2>2, <3>2 DEF LeastOf
      <4> QED
        BY <3>1, <4>1, <4>2, <4>3
           DEF Keeps, Within, Stamp, CHUNK_SEC, OVERLAP_SEC
    <3>3. CASE j > own
      <4> SUFFICES ~Keeps(j, n, s, e, w)
        BY DEF w
      <4>1. j # 1 /\ s + e < 240 * (j - 1) + 8
        BY <2>2, <3>3
      <4>2. LeastOf(e, w.to) = e
        BY <3>1, <4>1, <2>4 DEF LeastOf
      <4>3. /\ LargerOf(s, w.from) \in Int
            /\ LargerOf(s, w.from) + e < 240 * (j - 1) + 8
        BY <3>1, <4>1, <2>4 DEF LargerOf
      <4> QED
        BY <3>1, <4>1, <4>2, <4>3
           DEF Keeps, Within, Stamp, CHUNK_SEC, OVERLAP_SEC
    <3> QED
      BY <2>2, <2>7, <3>2, <3>3
  <2>8. _split_wav(length)[own].from <= s
    BY <2>2, <2>3, <2>5
  <2>9. Len(_split_wav(length)) = n
    BY <2>1
  <2> QED
    BY <2>2, <2>5, <2>6, <2>7, <2>8, <2>9
<1>3. length <= CHUNK_SEC + OVERLAP_SEC \/ length > CHUNK_SEC + OVERLAP_SEC
  BY DEF CHUNK_SEC, OVERLAP_SEC
<1> QED
  BY <1>1, <1>2, <1>3, Zenon
-----------------------------------------------------------------------------
(* The words of a file (Stt): what one window hears, keeps and passes on.  *)

LEMMA HowMany ==
    ASSUME NEW a \in Int, NEW b \in Int, a - 1 <= b
    PROVE  Cardinality(a .. b) = b - a + 1
<1>1. Cardinality(a .. b) = IF a > b THEN 0 ELSE b - a + 1
  BY FS_Interval
<1> QED
  BY <1>1

(* The numbers of an interval, in order.                                   *)
LEMMA IntervalInOrder ==
    ASSUME NEW a \in Nat, NEW b \in Nat, a <= b
    PROVE  InOrder(a + 1 .. b, <) = [k \in 1 .. b - a |-> a + k]
<1> DEFINE S == a + 1 .. b
<1>1. Cardinality(S) = b - a
  BY HowMany, b - (a + 1) + 1 = b - a
<1>2. ASSUME NEW x \in S PROVE Cardinality({y \in S : y < x}) = x - a - 1
  <2> DEFINE before == {y \in S : y < x}
  <2>1. before = a + 1 .. x - 1
    OBVIOUS
  <2>2. x \in Int /\ x - 1 \in Int /\ a + 1 \in Int /\ (a + 1) - 1 <= x - 1
    OBVIOUS
  <2>3. Cardinality(a + 1 .. x - 1) = (x - 1) - (a + 1) + 1
    BY <2>2, HowMany
  <2> HIDE DEF before
  <2>4. Cardinality(before) = x - 1 - a
    BY <2>1, <2>2, <2>3
  <2> QED
    BY <2>2, <2>4 DEF before
<1>3. ASSUME NEW k \in 1 .. b - a
      PROVE  (CHOOSE x \in S : Cardinality({y \in S : y < x}) = k - 1) = a + k
  <2> HIDE DEF S
  <2>1. a + k \in S /\ \A x \in S : x \in Int
    BY DEF S
  <2>2. \A x \in S : Cardinality({y \in S : y < x}) = k - 1 <=> x = a + k
    BY <1>2, <2>1
  <2> QED
    BY <2>1, <2>2
<1> QED
  BY <1>1, <1>3 DEF InOrder

(* The elements of a sequence at the positions of an interval.             *)
LEMMA IntervalOf ==
    ASSUME NEW s, NEW a \in Nat, NEW b \in Nat, a <= b
    PROVE  At(s, a + 1 .. b) = [k \in 1 .. b - a |-> s[a + k]]
<1> DEFINE order == [k \in 1 .. b - a |-> a + k]
<1>1. At(s, a + 1 .. b) = [k \in DOMAIN order |-> s[order[k]]]
  BY IntervalInOrder DEF At
<1> QED
  BY <1>1

(* And at no position.                                                     *)
LEMMA NothingOf ==
    ASSUME NEW s, NEW n \in Int, n < 1
    PROVE  At(s, {}) = [k \in 1 .. n |-> 0]
<1>1. {} = 1 .. 0 /\ 1 .. n = {} /\ 0 + 1 = 1
  OBVIOUS
<1>2. At(s, 0 + 1 .. 0) = [k \in 1 .. 0 - 0 |-> s[0 + k]]
  <2>1. 0 \in Nat /\ 0 <= 0
    OBVIOUS
  <2> QED
    BY <2>1, IntervalOf, Zenon
<1>3. [k \in 1 .. 0 - 0 |-> s[0 + k]] = [k \in 1 .. n |-> 0]
  OBVIOUS
<1> QED
  BY <1>1, <1>2, <1>3

(* What is in time already stays as it is.                                 *)
LEMMA SortedStays ==
    ASSUME NEW T, NEW s \in Seq(T), \A i \in DOMAIN s : s[i].start \in Int /\ s[i].end \in Int,
           \A i, j \in DOMAIN s : i < j => s[i].start < s[j].start
    PROVE  InTime(s) = s
<1> DEFINE D == DOMAIN s
           Earlier(i, j) == LET x == s[i]
                                y == s[j]
                            IN  \/ x.start < y.start
                                \/ x.start = y.start /\ x.end < y.end
                                \/ x.start = y.start /\ x.end = y.end /\ i < j
<1>0. PICK n \in Nat : n = Len(s) /\ D = 1 .. n
  OBVIOUS
<1>1. \A i, j \in D : Earlier(i, j) <=> i < j
  BY <1>0
<1>2. Cardinality(D) = n
  <2>1. 1 \in Int /\ n \in Int /\ 1 - 1 <= n
    OBVIOUS
  <2>2. Cardinality(1 .. n) = n - 1 + 1
    BY <2>1, HowMany
  <2> QED
    BY <1>0, <2>2
<1>3. ASSUME NEW x \in D PROVE Cardinality({y \in D : Earlier(y, x)}) = x - 1
  <2> HIDE DEF Earlier
  <2> DEFINE before == {y \in D : Earlier(y, x)}
  <2>1. before = 1 .. x - 1
    BY <1>0, <1>1
  <2>2. 1 \in Int /\ x \in Int /\ x - 1 \in Int /\ 1 - 1 <= x - 1
    BY <1>0
  <2>3. Cardinality(1 .. x - 1) = (x - 1) - 1 + 1
    BY <2>2, HowMany
  <2> HIDE DEF before
  <2>4. Cardinality(before) = x - 1
    BY <2>1, <2>2, <2>3
  <2> QED
    BY <2>2, <2>4 DEF before
<1>4. ASSUME NEW k \in D
      PROVE  (CHOOSE x \in D : Cardinality({y \in D : Earlier(y, x)}) = k - 1) = k
  <2> HIDE DEF Earlier
  <2>1. \A x \in D : Cardinality({y \in D : Earlier(y, x)}) = k - 1 <=> x = k
    BY <1>0, <1>3
  <2> HIDE DEF D
  <2> QED
    BY <2>1
<1>5. InOrder(DOMAIN s, Earlier) = [k \in D |-> k]
  BY <1>0, <1>2, <1>4 DEF InOrder
<1>6. InTime(s) = [k \in D |-> s[k]]
  BY <1>5 DEF InTime
<1> QED
  BY <1>6
-----------------------------------------------------------------------------
(* A set of numbers without gaps is an interval.                           *)
LEMMA AnInterval ==
    ASSUME NEW L \in Nat, NEW I \in SUBSET (1 .. L),
           \A i, k \in I : \A j \in i .. k : j \in I
    PROVE  \E a, b \in 0 .. L : a <= b /\ I = a + 1 .. b
<1>1. CASE I = {}
  <2>1. I = 0 + 1 .. 0
    BY <1>1
  <2> QED
    BY <2>1
<1>2. CASE I # {}
  <2>1. PICK m \in I : \A i \in I : m <= i
    <3>1. I \in SUBSET Nat
      OBVIOUS
    <3> QED
      BY <1>2, <3>1, LeastMember
  <2> DEFINE G == {i \in 1 .. L : \E k \in I : i <= k}
             b == Cardinality(G)
  <2>2. \A i \in G : \A j \in 1 .. i : j \in G
    <3> TAKE i \in G
    <3> TAKE j \in 1 .. i
    <3>1. PICK k \in I : i <= k
      OBVIOUS
    <3>2. j <= k /\ j \in 1 .. L
      BY <3>1
    <3> QED
      BY <3>2
  <2>3. b \in 0 .. L /\ G = 1 .. b
    <3> HIDE DEF G
    <3>1. G \in SUBSET (1 .. L)
      BY DEF G
    <3> QED
      BY <2>2, <3>1, FirstOnes
  <2>4. m \in 1 .. L /\ m \in G
    OBVIOUS
  <2>5. \A i \in I : i \in G
    OBVIOUS
  <2>6. \A i \in G : m <= i => i \in I
    <3> TAKE i \in G
    <3>1. PICK k \in I : i <= k
      OBVIOUS
    <3>2. m <= i => i \in m .. k
      BY <3>1, <2>4
    <3> QED
      BY <3>2
  <2> HIDE DEF G, b
  <2>7. I = m .. b
    <3>1. \A i \in I : i \in m .. b
      BY <2>1, <2>3, <2>4, <2>5
    <3>2. \A i \in m .. b : i \in I
      <4> TAKE i \in m .. b
      <4>1. i \in 1 .. b /\ m <= i
        BY <2>4
      <4> QED
        BY <2>3, <2>6, <4>1
    <3> QED
      BY <3>1, <3>2
  <2>8. m - 1 \in 0 .. L /\ (m - 1) + 1 = m /\ m - 1 <= b
    BY <2>3, <2>4
  <2> QED
    BY <2>3, <2>7, <2>8
<1> QED
  BY <1>1, <1>2

(* Intervals of time that follow each other.                               *)
Timed(s) ==
    /\ \A i \in DOMAIN s : s[i].start \in Int /\ s[i].end \in Int /\ s[i].start < s[i].end
    /\ \A i, j \in DOMAIN s : i < j => s[i].end <= s[j].start

(* The stamps that a window hears some of; in time, they are an interval.  *)
Heard(s, w) == {i \in DOMAIN s : s[i].start < w.to /\ s[i].end > w.from}

LEMMA HeardIs ==
    ASSUME NEW T, NEW s \in Seq(T), Timed(s), NEW w, w.from \in Int, w.to \in Int
    PROVE  \E a, b \in 0 .. Len(s) :
              /\ a <= b /\ Heard(s, w) = a + 1 .. b
              /\ At(s, Heard(s, w)) = [k \in 1 .. b - a |-> s[a + k]]
<1>0. PICK L \in Nat : L = Len(s) /\ DOMAIN s = 1 .. L
  OBVIOUS
<1>1. \A i, k \in Heard(s, w) : \A j \in i .. k : j \in Heard(s, w)
  <2> TAKE i, k \in Heard(s, w)
  <2> TAKE j \in i .. k
  <2>1. /\ i \in 1 .. L /\ k \in 1 .. L /\ s[i].end > w.from /\ s[k].start < w.to
        /\ s[i].start < w.to /\ s[k].end > w.from
    BY <1>0 DEF Heard
  <2>2. j \in 1 .. L /\ i <= j /\ j <= k
    BY <2>1
  <2>3. \A n \in 1 .. L : s[n].start \in Int /\ s[n].end \in Int /\ s[n].start < s[n].end
    BY <1>0 DEF Timed
  <2>4. i = j \/ s[i].end <= s[j].start
    <3>1. i = j \/ i < j
      BY <2>1, <2>2
    <3>2. i \in DOMAIN s /\ j \in DOMAIN s
      BY <1>0, <2>1, <2>2
    <3> QED
      BY <3>1, <3>2 DEF Timed
  <2>5. j = k \/ s[j].end <= s[k].start
    <3>1. j = k \/ j < k
      BY <2>1, <2>2
    <3>2. j \in DOMAIN s /\ k \in DOMAIN s
      BY <1>0, <2>1, <2>2
    <3> QED
      BY <3>1, <3>2 DEF Timed
  <2>6. s[j].start < w.to
    BY <2>1, <2>2, <2>3, <2>5
  <2>7. s[j].end > w.from
    BY <2>1, <2>2, <2>3, <2>4
  <2> QED
    BY <1>0, <2>2, <2>6, <2>7 DEF Heard
<1>2. Heard(s, w) \in SUBSET (1 .. L)
  BY <1>0 DEF Heard
<1>3. PICK a, b \in 0 .. L : a <= b /\ Heard(s, w) = a + 1 .. b
  BY <1>1, <1>2, AnInterval
<1>4. a \in Nat /\ b \in Nat
  BY <1>3
<1>5. At(s, a + 1 .. b) = [k \in 1 .. b - a |-> s[a + k]]
  BY <1>3, <1>4, IntervalOf
<1>6. /\ a <= b /\ Heard(s, w) = a + 1 .. b
      /\ At(s, Heard(s, w)) = [k \in 1 .. b - a |-> s[a + k]]
  BY <1>3, <1>5, Zenon
<1>7. a \in 0 .. Len(s) /\ b \in 0 .. Len(s)
  BY <1>0, <1>3
<1> QED
  BY <1>6, <1>7, Zenon

(* What the window w hears of x, in the time of the recording.             *)
Clipped(y, x, w) == y.start = LargerOf(x.start, w.from) /\ y.end = LeastOf(x.end, w.to)

(* Whether something that is no longer than the overlap is kept can be     *)
(* told from what a window hears of it, and what is kept was heard whole.  *)
LEMMA ClipWithin ==
    ASSUME NEW x, NEW y, NEW w, NEW lo \in Int, NEW hi \in Int, NEW p, NEW q,
           x.start \in Int, x.end \in Int, w.from \in Int, w.to \in Int,
           x.start < x.end, x.end - x.start <= OVERLAP_SEC, Clipped(y, x, w),
           p \in BOOLEAN, q \in BOOLEAN,
           p => w.from <= x.start, ~p => lo = w.from + OVERLAP_SEC \div 2,
           q => x.end <= w.to, ~q => hi = w.to - OVERLAP_SEC \div 2
    PROVE  /\ Within(y, lo, hi, p, q) <=> Within(x, lo, hi, p, q)
           /\ Within(x, lo, hi, p, q) =>
                 w.from <= x.start /\ x.end <= w.to /\ y.start = x.start /\ y.end = x.end
<1> PICK s, e, f, t, u, v \in Int :
         /\ s = x.start /\ e = x.end /\ f = w.from /\ t = w.to
         /\ u = y.start /\ v = y.end
         /\ u = IF s > f THEN s ELSE f
         /\ v = IF e < t THEN e ELSE t
  BY DEF Clipped, LargerOf, LeastOf
<1>0. s < e /\ e - s <= 8 /\ (~p => lo = f + 4) /\ (~q => hi = t - 4) /\ (p => f <= s) /\ (q => e <= t)
  BY DEF OVERLAP_SEC
<1>x. Within(x, lo, hi, p, q) <=> (p \/ 2 * lo <= s + e) /\ (q \/ s + e < 2 * hi)
  BY DEF Within
<1>y. Within(y, lo, hi, p, q) <=> (p \/ 2 * lo <= u + v) /\ (q \/ u + v < 2 * hi)
  BY DEF Within
<1>2. ASSUME Within(x, lo, hi, p, q) PROVE f <= s /\ e <= t
  BY <1>0, <1>2, <1>x
<1>3. ASSUME f <= s, e <= t PROVE u = s /\ v = e
  BY <1>3
<1>4. ASSUME Within(x, lo, hi, p, q) PROVE Within(y, lo, hi, p, q)
  BY <1>2, <1>3, <1>4, <1>x, <1>y
<1>5. ASSUME ~p, 2 * lo > s + e PROVE 2 * lo > u + v
  BY <1>0, <1>5
<1>6. ASSUME ~q, s + e >= 2 * hi PROVE u + v >= 2 * hi
  BY <1>0, <1>6
<1>7. ASSUME ~Within(x, lo, hi, p, q) PROVE ~Within(y, lo, hi, p, q)
  BY <1>5, <1>6, <1>7, <1>x, <1>y
<1> QED
  BY <1>2, <1>3, <1>4, <1>7
-----------------------------------------------------------------------------
(* A sequence of sequences, one after the other.                           *)
NextFlat(seqs, f, i) == IF i = 1 THEN seqs[i] ELSE f[i - 1] \o seqs[i]

(* The recursion of FlattenSeq has a solution, and one more sequence is    *)
(* what it puts behind the others.                                         *)
LEMMA FlatExists ==
    ASSUME NEW seqs, NEW L \in Nat
    PROVE  \E f : f = [i \in 1 .. L |-> NextFlat(seqs, f, i)]
<1> DEFINE S == {n \in 0 .. L : \E f : f = [i \in 1 .. n |-> NextFlat(seqs, f, i)]}
<1>1. 0 \in S
  <2> DEFINE f == [i \in 1 .. 0 |-> 0]
  <2>1. f = [i \in 1 .. 0 |-> NextFlat(seqs, f, i)]
    OBVIOUS
  <2> HIDE DEF f
  <2>2. 0 \in 0 .. L
    OBVIOUS
  <2> QED
    BY <2>1, <2>2
<1>2. ASSUME NEW n \in 0 .. L - 1, n \in S PROVE n + 1 \in S
  <2>1. PICK f : f = [i \in 1 .. n |-> NextFlat(seqs, f, i)]
    BY <1>2
  <2> DEFINE g == [i \in 1 .. n + 1 |-> IF i <= n THEN f[i] ELSE NextFlat(seqs, f, i)]
  <2>2. \A i \in 1 .. n : g[i] = f[i]
    OBVIOUS
  <2>3. ASSUME NEW i \in 1 .. n + 1 PROVE g[i] = NextFlat(seqs, g, i)
    <3>1. i = 1 \/ g[i - 1] = f[i - 1]
      BY <2>2
    <3>2. NextFlat(seqs, g, i) = NextFlat(seqs, f, i)
      BY <3>1 DEF NextFlat
    <3>3. g[i] = NextFlat(seqs, f, i)
      BY <2>1
    <3> QED
      BY <3>2, <3>3
  <2>4. g = [i \in 1 .. n + 1 |-> NextFlat(seqs, g, i)]
    BY <2>3
  <2> HIDE DEF g
  <2> QED
    BY <2>4
<1> HIDE DEF S
<1>3. 0 .. L \subseteq S
  BY <1>1, <1>2, UpTo
<1> QED
  BY <1>3 DEF S

LEMMA Flattened ==
    ASSUME NEW seqs, NEW n \in Nat \ {0}, n = Len(seqs)
    PROVE  \E f : /\ \A i \in 1 .. n : f[i] = NextFlat(seqs, f, i)
                  /\ FlattenSeq(seqs) = f[n]
<1> DEFINE F == CHOOSE f : f = [i \in 1 .. n |->
                                   IF i = 1 THEN seqs[i] ELSE f[i - 1] \o seqs[i]]
<1>1. F = [i \in 1 .. n |-> NextFlat(seqs, F, i)]
  BY FlatExists DEF NextFlat
<1>2. FlattenSeq(seqs) = F[n]
  BY DEF FlattenSeq
<1> HIDE DEF F
<1> QED
  BY <1>1, <1>2

LEMMA FlattenEmpty == FlattenSeq(<<>>) = <<>>
  BY DEF FlattenSeq

LEMMA FlattenAppend ==
    ASSUME NEW T, NEW ss \in Seq(Seq(T)), NEW s \in Seq(T)
    PROVE  FlattenSeq(Append(ss, s)) = FlattenSeq(ss) \o s
<1> PICK n \in Nat : n = Len(ss)
  OBVIOUS
<1> DEFINE more == Append(ss, s)
<1>0. /\ Len(more) = n + 1 /\ more[n + 1] = s /\ n + 1 \in Nat \ {0}
      /\ \A i \in 1 .. n : more[i] = ss[i]
  OBVIOUS
<1> HIDE DEF more
<1>1. PICK f : /\ \A i \in 1 .. n + 1 : f[i] = NextFlat(more, f, i)
               /\ FlattenSeq(more) = f[n + 1]
  BY <1>0, Flattened
<1>2. CASE n = 0
  <2>1. f[n + 1] = s
    BY <1>0, <1>1, <1>2 DEF NextFlat
  <2>2. ss = <<>>
    BY <1>2, EmptySeq
  <2>3. FlattenSeq(ss) = <<>>
    BY <2>2, FlattenEmpty
  <2> QED
    BY <1>1, <2>1, <2>3 DEF more
<1>3. CASE n # 0
  <2>1. PICK g : /\ \A i \in 1 .. n : g[i] = NextFlat(ss, g, i)
                 /\ FlattenSeq(ss) = g[n]
    BY <1>3, Flattened
  <2>l. n - 1 \in Nat
    BY <1>3
  <2> PICK l \in Nat : l = n - 1
    BY <2>l
  <2> DEFINE S == {k \in 0 .. l : f[k + 1] = g[k + 1]}
  <2>2. 0 \in S
    BY <1>0, <1>1, <1>3, <2>1 DEF NextFlat
  <2>3. ASSUME NEW k \in 0 .. l - 1, k \in S PROVE k + 1 \in S
    <3>1. /\ k + 2 \in 1 .. n /\ k + 2 \in 1 .. n + 1 /\ k + 2 # 1
          /\ (k + 2) - 1 = k + 1 /\ (k + 1) + 1 = k + 2
      OBVIOUS
    <3>2. f[k + 2] = f[k + 1] \o more[k + 2] /\ g[k + 2] = g[k + 1] \o ss[k + 2]
      BY <1>1, <2>1, <3>1 DEF NextFlat
    <3>3. f[k + 2] = g[k + 2]
      BY <1>0, <2>3, <3>1, <3>2
    <3> QED
      BY <3>1, <3>3
  <2> HIDE DEF S
  <2>4. 0 .. l \subseteq S
    BY <2>2, <2>3, UpTo
  <2>5. f[n] = g[n]
    <3>1. l \in 0 .. l /\ l + 1 = n
      BY <1>3
    <3> QED
      BY <2>4, <3>1 DEF S
  <2>6. f[n + 1] = f[n] \o s
    <3>1. n + 1 \in 1 .. n + 1 /\ n + 1 # 1 /\ (n + 1) - 1 = n
      BY <1>3
    <3> QED
      BY <1>0, <1>1, <3>1 DEF NextFlat
  <2> QED
    BY <1>1, <2>1, <2>5, <2>6 DEF more
<1> QED
  BY <1>2, <1>3

(* Joining two sequences: which elements come from which.                  *)
LEMMA Beyond ==
    ASSUME NEW c \in Nat, NEW d \in Nat, c <= d
    PROVE  /\ \A k \in 1 .. d - c : c + k \in 1 .. d /\ ~(c + k <= c) /\ (c + k) - c = k
           /\ \A q \in 1 .. c : q \in 1 .. d
  OBVIOUS

LEMMA Joined ==
    ASSUME NEW T, NEW s \in Seq(T), NEW t \in Seq(T), NEW c \in Nat, NEW d \in Nat,
           Len(s) = c, Len(t) = d - c, c <= d
    PROVE  /\ s \o t \in Seq(T) /\ Len(s \o t) = d
           /\ \A q \in 1 .. c : (s \o t)[q] = s[q]
           /\ \A k \in 1 .. d - c : (s \o t)[c + k] = t[k]
<1>1. /\ s \o t \in Seq(T) /\ Len(s \o t) = Len(s) + Len(t)
      /\ \A q \in 1 .. Len(s) + Len(t) :
            (s \o t)[q] = IF q <= Len(s) THEN s[q] ELSE t[q - Len(s)]
  BY ConcatProperties, Zenon
<1>2. c + (d - c) = d
  OBVIOUS
<1> DEFINE r == s \o t
<1> HIDE DEF r
<1>3. \A q \in 1 .. d : r[q] = IF q <= c THEN s[q] ELSE t[q - c]
  BY <1>1, <1>2 DEF r
<1>4. ASSUME NEW q \in 1 .. c PROVE r[q] = s[q]
  BY <1>3, Beyond
<1>5. ASSUME NEW k \in 1 .. d - c PROVE r[c + k] = t[k]
  <2>1. c + k \in 1 .. d /\ ~(c + k <= c) /\ (c + k) - c = k
    BY Beyond
  <2> QED
    BY <1>3, <2>1
<1> QED
  BY <1>1, <1>2, <1>4, <1>5 DEF r

(* Where each of the sequences lies in the whole: the i-th one reaches from *)
(* after border i - 1 to border i.                                         *)
Placed(r, seqs, B, n) ==
    /\ Len(r) = B[n]
    /\ \A i \in 1 .. n : \A k \in 1 .. B[i] - B[i - 1] :
          B[i - 1] + k \in 1 .. B[n] /\ r[B[i - 1] + k] = seqs[i][k]
    /\ \A q \in 1 .. B[n] : \E i \in 1 .. n : \E k \in 1 .. B[i] - B[i - 1] :
          q = B[i - 1] + k

LEMMA PlacedOneMore ==
    ASSUME NEW T, NEW seqs, NEW B, NEW n \in Nat, NEW r \in Seq(T), seqs[n + 1] \in Seq(T),
           B[n] \in Nat, B[n + 1] \in Nat, B[n] <= B[n + 1],
           Len(seqs[n + 1]) = B[n + 1] - B[n], Placed(r, seqs, B, n)
    PROVE  r \o seqs[n + 1] \in Seq(T) /\ Placed(r \o seqs[n + 1], seqs, B, n + 1)
<1>a. PICK c, d \in Nat : c = B[n] /\ d = B[n + 1]
  OBVIOUS
<1>b. PICK s \in Seq(T) : s = seqs[n + 1]
  OBVIOUS
<1>c. c <= d /\ Len(s) = d - c
  BY <1>a, <1>b
<1> DEFINE t == r \o s
<1>1. Len(r) = c
  BY <1>a DEF Placed
<1>2. /\ t \in Seq(T) /\ Len(t) = d
      /\ \A q \in 1 .. c : t[q] = r[q]
      /\ \A k \in 1 .. d - c : t[c + k] = s[k]
  BY <1>1, <1>c, Joined
<1> HIDE DEF t
<1>3. (n + 1) - 1 = n /\ n + 1 \in 1 .. n + 1
  OBVIOUS
<1>4. ASSUME NEW i \in 1 .. n + 1, NEW k \in 1 .. B[i] - B[i - 1]
      PROVE  B[i - 1] + k \in 1 .. d /\ t[B[i - 1] + k] = seqs[i][k]
  <2>1. CASE i = n + 1
    <3>1. B[i - 1] = c /\ B[i] = d
      BY <1>3, <1>a, <2>1
    <3>2. k \in 1 .. d - c
      BY <3>1
    <3>3. c + k \in 1 .. d
      BY <3>2, <1>c, Beyond
    <3> QED
      BY <1>2, <1>b, <2>1, <3>1, <3>2, <3>3
  <2>2. CASE i # n + 1
    <3>1. i \in 1 .. n
      BY <2>2
    <3>2. B[i - 1] + k \in 1 .. c /\ r[B[i - 1] + k] = seqs[i][k]
      BY <1>a, <3>1 DEF Placed
    <3>3. B[i - 1] + k \in 1 .. d
      BY <3>2, <1>c, Beyond
    <3> QED
      BY <1>2, <3>2, <3>3
  <2> QED
    BY <2>1, <2>2
<1>5. ASSUME NEW q \in 1 .. d
      PROVE  \E i \in 1 .. n + 1 : \E k \in 1 .. B[i] - B[i - 1] : q = B[i - 1] + k
  <2>1. CASE q <= c
    <3>1. q \in 1 .. B[n]
      BY <1>a, <2>1
    <3>2. PICK i \in 1 .. n : \E k \in 1 .. B[i] - B[i - 1] : q = B[i - 1] + k
      BY <3>1 DEF Placed
    <3>3. i \in 1 .. n + 1
      OBVIOUS
    <3> QED
      BY <3>2, <3>3
  <2>2. CASE q > c
    <3>1. q - c \in 1 .. d - c /\ q = c + (q - c)
      BY <2>2
    <3>2. q - c \in 1 .. B[n + 1] - B[(n + 1) - 1] /\ q = B[(n + 1) - 1] + (q - c)
      BY <1>3, <1>a, <3>1
    <3> QED
      BY <1>3, <3>2
  <2> QED
    BY <2>1, <2>2
<1>6. Len(t) = B[n + 1]
  BY <1>2, <1>a
<1>7. Placed(t, seqs, B, n + 1)
  BY <1>4, <1>5, <1>6, <1>a DEF Placed
<1> QED
  BY <1>2, <1>7, <1>b DEF t

(* So r holds every sequence in the range that B gives it.                 *)
LEMMA FlattenRanges ==
    ASSUME NEW T, NEW seqs \in Seq(Seq(T)), NEW N \in Nat \ {0}, N = Len(seqs),
           NEW B \in [0 .. N -> Nat], B[0] = 0,
           \A i \in 1 .. N : Len(seqs[i]) = B[i] - B[i - 1]
    PROVE  FlattenSeq(seqs) \in Seq(T) /\ Placed(FlattenSeq(seqs), seqs, B, N)
<1>0. PICK l \in Nat : l = N - 1
  <2>1. N - 1 \in Nat
    OBVIOUS
  <2> QED
    BY <2>1
<1>1. PICK f : /\ \A i \in 1 .. N : f[i] = NextFlat(seqs, f, i)
               /\ FlattenSeq(seqs) = f[N]
  BY Flattened
<1> DEFINE S == {m \in 0 .. l : f[m + 1] \in Seq(T) /\ Placed(f[m + 1], seqs, B, m + 1)}
<1>2. \A i \in 1 .. N : /\ seqs[i] \in Seq(T) /\ Len(seqs[i]) = B[i] - B[i - 1]
                        /\ B[i] \in Nat /\ B[i - 1] \in Nat /\ B[i - 1] <= B[i]
  <2> TAKE i \in 1 .. N
  <2>1. seqs[i] \in Seq(T) /\ i \in 0 .. N /\ i - 1 \in 0 .. N
    OBVIOUS
  <2>2. B[i] \in Nat /\ B[i - 1] \in Nat
    BY <2>1
  <2>3. Len(seqs[i]) \in Nat
    BY <2>1, LenProperties
  <2> QED
    BY <2>1, <2>2, <2>3
<1>3. 0 \in S
  <2>1. f[1] = seqs[1] /\ 1 \in 1 .. N /\ 1 - 1 = 0
    BY <1>1 DEF NextFlat
  <2>2. Len(f[1]) = B[1] /\ B[1] \in Nat /\ f[1] \in Seq(T)
    BY <1>2, <2>1
  <2>3. \A i \in 1 .. 1 : i = 1 /\ B[i - 1] = 0
    BY <2>1
  <2>4. Placed(f[1], seqs, B, 1)
    BY <2>1, <2>2, <2>3 DEF Placed
  <2> QED
    BY <1>0, <2>2, <2>4
<1>4. ASSUME NEW m \in 0 .. l - 1, m \in S PROVE m + 1 \in S
  <2>n. PICK n \in Nat \ {0} : n = m + 1
    OBVIOUS
  <2>0. n + 1 \in 1 .. N /\ n + 1 # 1 /\ (n + 1) - 1 = n /\ n \in 0 .. l
        /\ n = m + 1
    BY <1>0, <2>n
  <2>1. f[n] \in Seq(T) /\ Placed(f[n], seqs, B, n)
    BY <1>4, <2>n
  <2>2. f[n + 1] = f[n] \o seqs[n + 1]
    BY <1>1, <2>0 DEF NextFlat
  <2>3. /\ seqs[n + 1] \in Seq(T) /\ Len(seqs[n + 1]) = B[n + 1] - B[n]
        /\ B[n + 1] \in Nat /\ B[n] \in Nat /\ B[n] <= B[n + 1]
    BY <1>2, <2>0
  <2>4. f[n + 1] \in Seq(T) /\ Placed(f[n + 1], seqs, B, n + 1)
    <3>1. n \in Nat
      OBVIOUS
    <3>2. /\ f[n] \o seqs[n + 1] \in Seq(T)
          /\ Placed(f[n] \o seqs[n + 1], seqs, B, n + 1)
      BY <2>1, <2>3, <3>1, PlacedOneMore
    <3> QED
      BY <2>2, <3>2
  <2> QED
    BY <2>0, <2>4
<1> HIDE DEF S
<1>5. 0 .. l \subseteq S
  BY <1>3, <1>4, UpTo
<1>6. f[N] \in Seq(T) /\ Placed(f[N], seqs, B, N)
  <2>1. l \in 0 .. l /\ l + 1 = N
    BY <1>0
  <2> QED
    BY <1>5, <2>1 DEF S
<1> QED
  BY <1>1, <1>6
-----------------------------------------------------------------------------
(* The cut. What follows each other in time is divided at the borders.     *)
Bordered(B, xs, cut, N) ==
    /\ B \in [0 .. N -> 0 .. Len(xs)]
    /\ B[0] = 0 /\ B[N] = Len(xs)
    /\ \A i \in 1 .. N : B[i - 1] <= B[i]
    /\ \A i \in 1 .. N : \A n \in DOMAIN xs :
          Within(xs[n], cut[i], cut[i + 1], i = 1, i = N) <=> B[i - 1] < n /\ n <= B[i]

(* The cuts of a recording divide what was said into ranges.               *)
LEMMA Borders ==
    ASSUME NEW T, NEW xs \in Seq(T), Timed(xs), NEW N \in Nat \ {0},
           NEW cut \in [1 .. N + 1 -> Int], \A i \in 2 .. N - 1 : cut[i] <= cut[i + 1]
    PROVE  \E B : Bordered(B, xs, cut, N)
<1>0. PICK L \in Nat : L = Len(xs) /\ DOMAIN xs = 1 .. L
  OBVIOUS
<1> DEFINE mid(n)  == xs[n].start + xs[n].end
           G(i)    == {n \in 1 .. L : mid(n) < 2 * cut[i + 1]}
           count(i) == Cardinality(G(i))
           B       == [i \in 0 .. N |-> IF i = 0 THEN 0 ELSE IF i = N THEN L ELSE count(i)]
<1>1. /\ \A n \in 1 .. L : mid(n) \in Int
      /\ \A n, m \in 1 .. L : n < m => mid(n) < mid(m)
  <2>1. \A n \in 1 .. L : /\ xs[n].start \in Int /\ xs[n].end \in Int
                          /\ xs[n].start < xs[n].end
    BY <1>0 DEF Timed
  <2>2. \A n, m \in 1 .. L : n < m => xs[n].end <= xs[m].start
    BY <1>0 DEF Timed
  <2>3. ASSUME NEW n \in 1 .. L, NEW m \in 1 .. L, n < m PROVE mid(n) < mid(m)
    <3>1. /\ xs[n].start \in Int /\ xs[n].end \in Int /\ xs[n].start < xs[n].end
          /\ xs[m].start \in Int /\ xs[m].end \in Int /\ xs[m].start < xs[m].end
      BY <2>1
    <3>2. xs[n].end <= xs[m].start
      BY <2>2, <2>3
    <3> QED
      BY <3>1, <3>2
  <2>4. \A n \in 1 .. L : mid(n) \in Int
    BY <2>1
  <2> HIDE DEF mid
  <2> QED
    BY <2>3, <2>4
<1> HIDE DEF mid
<1>2. ASSUME NEW i \in 1 .. N
      PROVE  count(i) \in 0 .. L /\ G(i) = 1 .. count(i)
  <2>0. cut[i + 1] \in Int
    BY SMT
  <2>1. ASSUME NEW n \in G(i), NEW m \in 1 .. n PROVE m \in G(i)
    <3>1. m \in 1 .. L /\ n \in 1 .. L /\ (m = n \/ m < n) /\ mid(n) < 2 * cut[i + 1]
      OBVIOUS
    <3>2. mid(m) \in Int /\ mid(n) \in Int /\ (m = n \/ mid(m) < mid(n))
      BY <1>1, <3>1
    <3>3. mid(m) < 2 * cut[i + 1]
      BY <2>0, <3>1, <3>2
    <3> QED
      BY <3>1, <3>3
  <2>2. G(i) \in SUBSET (1 .. L)
    OBVIOUS
  <2> HIDE DEF G
  <2> QED
    BY <2>1, <2>2, FirstOnes
<1>3. ASSUME NEW i \in 1 .. N, NEW n \in 1 .. L
      PROVE  mid(n) < 2 * cut[i + 1] <=> n <= count(i)
  <2>1. n \in G(i) <=> n \in 1 .. count(i)
    BY <1>2
  <2>2. n \in G(i) <=> mid(n) < 2 * cut[i + 1]
    OBVIOUS
  <2>3. count(i) \in 0 .. L
    BY <1>2
  <2> HIDE DEF G, count
  <2> QED
    BY <2>1, <2>2, <2>3
<1> HIDE DEF count
<1>4. B \in [0 .. N -> 0 .. L] /\ B[0] = 0 /\ B[N] = L
  <2>1. ASSUME NEW i \in 0 .. N
        PROVE  (IF i = 0 THEN 0 ELSE IF i = N THEN L ELSE count(i)) \in 0 .. L
    BY <1>2
  <2> QED
    BY <2>1
<1>5. \A i \in 1 .. N : /\ i # N => B[i] = count(i)
                        /\ i # 1 => i - 1 \in 1 .. N /\ B[i - 1] = count(i - 1)
  OBVIOUS
<1> HIDE DEF B
<1>6. ASSUME NEW i \in 1 .. N PROVE B[i - 1] <= B[i]
  <2>1. CASE i = 1
    BY <1>4, <2>1
  <2>2. CASE i = N
    BY <1>4, <2>2
  <2>3. CASE i # 1 /\ i # N
    <3>1. B[i] = count(i) /\ B[i - 1] = count(i - 1) /\ i - 1 \in 1 .. N
      BY <1>5, <2>3
    <3>2. count(i) \in 0 .. L /\ count(i - 1) \in 0 .. L
      BY <1>2, <3>1
    <3>3. CASE count(i - 1) = 0
      BY <3>1, <3>2, <3>3
    <3>4. CASE count(i - 1) # 0
      <4>1. PICK n \in 1 .. L : n = count(i - 1)
        BY <3>2, <3>4
      <4>2. n <= count(i - 1)
        BY <4>1
      <4>3. mid(n) < 2 * cut[(i - 1) + 1]
        BY <1>3, <3>1, <4>2
      <4>4. /\ cut[i] \in Int /\ cut[i + 1] \in Int /\ cut[i] <= cut[i + 1]
            /\ (i - 1) + 1 = i
        BY <2>3
      <4>5. mid(n) < 2 * cut[i + 1]
        BY <1>1, <4>3, <4>4
      <4>6. n <= count(i)
        BY <1>3, <4>5
      <4> QED
        BY <3>1, <4>1, <4>6
    <3> QED
      BY <3>3, <3>4
  <2> QED
    BY <2>1, <2>2, <2>3
<1>7. ASSUME NEW i \in 1 .. N, NEW n \in 1 .. L
      PROVE  Within(xs[n], cut[i], cut[i + 1], i = 1, i = N) <=> B[i - 1] < n /\ n <= B[i]
  <2>1. i = N \/ mid(n) < 2 * cut[i + 1] <=> n <= B[i]
    <3>1. CASE i = N
      BY <1>4, <3>1
    <3>2. CASE i # N
      BY <1>3, <1>5, <3>2
    <3> QED
      BY <3>1, <3>2
  <2>2. i = 1 \/ 2 * cut[i] <= mid(n) <=> B[i - 1] < n
    <3>1. CASE i = 1
      BY <1>4, <3>1
    <3>2. CASE i # 1
      <4>1. i - 1 \in 1 .. N /\ B[i - 1] = count(i - 1) /\ (i - 1) + 1 = i /\ cut[i] \in Int
        BY <1>5, <3>2
      <4>2. mid(n) < 2 * cut[i] <=> n <= count(i - 1)
        BY <1>3, <4>1
      <4>3. count(i - 1) \in Nat /\ mid(n) \in Int
        BY <1>1, <1>2, <4>1
      <4> QED
        BY <3>2, <4>1, <4>2, <4>3
    <3> QED
      BY <3>1, <3>2
  <2> QED
    BY <2>1, <2>2 DEF Within, mid
<1>8. Bordered(B, xs, cut, N)
  BY <1>0, <1>4, <1>6, <1>7 DEF Bordered
<1> QED
  BY <1>8

(* xs last no longer than the overlap.                                     *)
Short(xs) == \A n \in DOMAIN xs : xs[n].end - xs[n].start <= OVERLAP_SEC

(* ys is what the window w heard of xs: the a + 1 st to the b-th.          *)
Hearing(ys, xs, w, a, b) ==
    /\ Heard(xs, w) = a + 1 .. b
    /\ Len(ys) = b - a
    /\ \A k \in 1 .. b - a : Clipped(ys[k], xs[a + k], w)

(* The window w is cut at lo and at hi, half an overlap from where it      *)
(* begins and ends, unless it is the first one or the last.                *)
CutAt(xs, w, lo, hi, p, q) ==
    /\ w.from \in Int /\ w.to \in Int /\ lo \in Int /\ hi \in Int
    /\ p \in BOOLEAN /\ q \in BOOLEAN
    /\ p => \A n \in DOMAIN xs : w.from <= xs[n].start
    /\ ~p => lo = w.from + OVERLAP_SEC \div 2
    /\ q => \A n \in DOMAIN xs : xs[n].end <= w.to
    /\ ~q => hi = w.to - OVERLAP_SEC \div 2

(* The c + 1 st of xs to the d-th are those between two borders.           *)
Between(xs, lo, hi, p, q, c, d) ==
    /\ c \in 0 .. Len(xs) /\ d \in 0 .. Len(xs) /\ c <= d
    /\ \A n \in DOMAIN xs : Within(xs[n], lo, hi, p, q) <=> c < n /\ n <= d

(* What a window keeps is what lies between its borders, heard whole.      *)
LEMMA OwnPart ==
    ASSUME NEW T, NEW xs \in Seq(T), Timed(xs), Short(xs),
           NEW w, NEW lo, NEW hi, NEW p, NEW q, CutAt(xs, w, lo, hi, p, q),
           NEW a \in Nat, NEW b \in Nat, a <= b,
           NEW U, NEW ys \in Seq(U), Hearing(ys, xs, w, a, b),
           NEW c, NEW d, Between(xs, lo, hi, p, q, c, d)
    PROVE  /\ Belonging(ys, lo, hi, p, q) = [k \in 1 .. d - c |-> ys[(c - a) + k]]
           /\ \A k \in 1 .. d - c : /\ (c - a) + k \in 1 .. b - a
                                    /\ ys[(c - a) + k].start = xs[c + k].start
                                    /\ ys[(c - a) + k].end = xs[c + k].end
<1>0. PICK L \in Nat : L = Len(xs) /\ DOMAIN xs = 1 .. L
  OBVIOUS
<1>t. c \in Nat /\ d \in Nat /\ c <= d /\ d <= L
  BY <1>0 DEF Between
<1>1. \A n \in 1 .. L : /\ xs[n].start \in Int /\ xs[n].end \in Int
                        /\ xs[n].start < xs[n].end
  BY <1>0 DEF Timed
<1>2. ASSUME NEW n \in 1 .. L, NEW y, Clipped(y, xs[n], w)
      PROVE  /\ Within(y, lo, hi, p, q) <=> c < n /\ n <= d
             /\ c < n /\ n <= d => y.start = xs[n].start /\ y.end = xs[n].end
  <2>1. n \in DOMAIN xs
    BY <1>0
  <2>2. /\ p => w.from <= xs[n].start
        /\ q => xs[n].end <= w.to
        /\ xs[n].end - xs[n].start <= OVERLAP_SEC
        /\ Within(xs[n], lo, hi, p, q) <=> c < n /\ n <= d
    BY <2>1 DEF CutAt, Short, Between
  <2>3. /\ w.from \in Int /\ w.to \in Int /\ lo \in Int /\ hi \in Int
        /\ p \in BOOLEAN /\ q \in BOOLEAN
        /\ ~p => lo = w.from + OVERLAP_SEC \div 2
        /\ ~q => hi = w.to - OVERLAP_SEC \div 2
    BY DEF CutAt
  <2> QED
    BY <1>1, <1>2, <2>2, <2>3, ClipWithin
<1>3. ASSUME NEW n \in 1 .. L, c < n, n <= d PROVE n \in a + 1 .. b
  <2> DEFINE y == [start |-> LargerOf(xs[n].start, w.from), end |-> LeastOf(xs[n].end, w.to)]
  <2>1. Clipped(y, xs[n], w)
    BY DEF Clipped
  <2>2. n \in DOMAIN xs
    BY <1>0
  <2>3. /\ p => w.from <= xs[n].start
        /\ q => xs[n].end <= w.to
        /\ xs[n].end - xs[n].start <= OVERLAP_SEC
        /\ Within(xs[n], lo, hi, p, q)
    BY <1>3, <2>2 DEF CutAt, Short, Between
  <2>w. /\ w.from \in Int /\ w.to \in Int /\ lo \in Int /\ hi \in Int
        /\ p \in BOOLEAN /\ q \in BOOLEAN
        /\ ~p => lo = w.from + OVERLAP_SEC \div 2
        /\ ~q => hi = w.to - OVERLAP_SEC \div 2
    BY DEF CutAt
  <2> HIDE DEF y
  <2>4. w.from <= xs[n].start /\ xs[n].end <= w.to
    BY <1>1, <2>1, <2>3, <2>w, ClipWithin
  <2>5. xs[n].start < w.to /\ xs[n].end > w.from
    BY <1>1, <2>4, <2>w
  <2> QED
    BY <2>2, <2>5 DEF Heard, Hearing
<1> DEFINE I == {k \in DOMAIN ys : Within(ys[k], lo, hi, p, q)}
<1>4. DOMAIN ys = 1 .. b - a
  BY LenProperties DEF Hearing
<1>5. a + 1 .. b \subseteq 1 .. L
  BY <1>0 DEF Heard, Hearing
<1>6. ASSUME NEW k \in 1 .. b - a
      PROVE  /\ a + k \in 1 .. L
             /\ Within(ys[k], lo, hi, p, q) <=> c < a + k /\ a + k <= d
             /\ c < a + k /\ a + k <= d =>
                   ys[k].start = xs[a + k].start /\ ys[k].end = xs[a + k].end
  <2>1. a + k \in a + 1 .. b
    OBVIOUS
  <2>2. a + k \in 1 .. L
    BY <1>5, <2>1
  <2> QED
    BY <1>2, <2>2 DEF Hearing
<1>7. Belonging(ys, lo, hi, p, q) = At(ys, I)
  BY DEF Belonging
<1>8. ASSUME NEW k \in 1 .. d - c PROVE c + k \in a + 1 .. b
  <2>1. c + k \in 1 .. L /\ c < c + k /\ c + k <= d
    BY <1>t
  <2> QED
    BY <1>3, <2>1
<1>9. CASE c = d
  <2>1. I = {}
    BY <1>4, <1>6, <1>9, <1>t
  <2> HIDE DEF I
  <2>2. d - c \in Int /\ d - c < 1
    BY <1>9, <1>t
  <2>3. At(ys, {}) = [k \in 1 .. d - c |-> 0]
    BY <2>2, NothingOf
  <2>4. 1 .. d - c = {}
    BY <1>9, <1>t
  <2>5. [k \in 1 .. d - c |-> 0] = [k \in 1 .. d - c |-> ys[(c - a) + k]]
    BY <2>4
  <2> QED
    BY <1>7, <2>1, <2>3, <2>4, <2>5
<1>10. CASE c < d
  <2>1. c + 1 \in a + 1 .. b /\ d \in a + 1 .. b
    <3>1. 1 \in 1 .. d - c /\ d - c \in 1 .. d - c /\ c + (d - c) = d
      BY <1>10, <1>t
    <3> QED
      BY <1>8, <3>1
  <2>2. c - a \in Nat /\ d - a \in Nat /\ c - a <= d - a /\ (d - a) - (c - a) = d - c
        /\ d - a <= b - a
    BY <1>10, <1>t, <2>1
  <2>3. I = (c - a) + 1 .. d - a
    <3>1. \A k \in I : k \in (c - a) + 1 .. d - a
      BY <1>4, <1>6, <1>t
    <3>2. \A k \in (c - a) + 1 .. d - a : k \in I
      <4> TAKE k \in (c - a) + 1 .. d - a
      <4>1. k \in Int /\ (c - a) + 1 <= k /\ k <= d - a
        BY <2>2
      <4>2. k \in 1 .. b - a /\ c < a + k /\ a + k <= d
        BY <2>2, <4>1, <1>t
      <4> QED
        BY <1>4, <1>6, <4>2
    <3> QED
      BY <3>1, <3>2
  <2> HIDE DEF I
  <2>4. At(ys, I) = [k \in 1 .. (d - a) - (c - a) |-> ys[(c - a) + k]]
    <3>1. PICK u \in Nat, v \in Nat : u = c - a /\ v = d - a
      BY <2>2
    <3>2. At(ys, u + 1 .. v) = [k \in 1 .. v - u |-> ys[u + k]]
      <4>1. u <= v
        BY <2>2, <3>1
      <4> QED
        BY <4>1, IntervalOf
    <3> QED
      BY <2>3, <3>1, <3>2
  <2>5. ASSUME NEW k \in 1 .. d - c
        PROVE  /\ (c - a) + k \in 1 .. b - a
               /\ ys[(c - a) + k].start = xs[c + k].start
               /\ ys[(c - a) + k].end = xs[c + k].end
    <3>1. /\ (c - a) + k \in 1 .. b - a /\ a + ((c - a) + k) = c + k
          /\ c < c + k /\ c + k <= d
      BY <1>t, <2>2
    <3> QED
      BY <1>6, <3>1
  <2> QED
    BY <1>7, <2>2, <2>4, <2>5
<1> QED
  BY <1>9, <1>10, <1>t
-----------------------------------------------------------------------------
(* The grouping.                                                           *)
HeardWord == [word : Nat, start : Int, end : Int, glue : BOOLEAN]
Grouping  == [start : Int, end : Int, words : Seq(Nat)]

(* The words of some segments, and of one more.                            *)
LEMMA FlattenType ==
    ASSUME NEW T, NEW seqs \in Seq(Seq(T))
    PROVE  FlattenSeq(seqs) \in Seq(T)
<1>1. CASE seqs = <<>>
  BY <1>1, FlattenEmpty, EmptySeq
<1>2. CASE seqs # <<>>
  <2>1. PICK n \in Nat \ {0} : n = Len(seqs)
    BY <1>2, EmptySeq
  <2>2. PICK f : /\ \A i \in 1 .. n : f[i] = NextFlat(seqs, f, i)
                 /\ FlattenSeq(seqs) = f[n]
    BY <2>1, Flattened
  <2>l. PICK l \in Nat : l + 1 = n
    <3>1. n - 1 \in Nat /\ (n - 1) + 1 = n
      OBVIOUS
    <3> QED
      BY <3>1
  <2> DEFINE S == {m \in 0 .. l : f[m + 1] \in Seq(T)}
  <2>3. \A i \in 1 .. n : seqs[i] \in Seq(T)
    BY <2>1
  <2>4. 0 \in S
    BY <2>2, <2>3 DEF NextFlat
  <2>5. ASSUME NEW m \in 0 .. l - 1, m \in S PROVE m + 1 \in S
    <3>1. (m + 1) + 1 \in 1 .. n /\ (m + 1) + 1 # 1 /\ ((m + 1) + 1) - 1 = m + 1 /\ m + 1 \in 0 .. l
      BY <2>l
    <3>2. f[(m + 1) + 1] = f[m + 1] \o seqs[(m + 1) + 1]
      BY <2>2, <3>1 DEF NextFlat
    <3>3. f[m + 1] \in Seq(T) /\ seqs[(m + 1) + 1] \in Seq(T)
      BY <2>3, <2>5, <3>1
    <3>4. f[m + 1] \o seqs[(m + 1) + 1] \in Seq(T)
      BY <3>3, ConcatProperties
    <3> QED
      BY <3>1, <3>2, <3>4
  <2> HIDE DEF S
  <2>6. 0 .. l \subseteq S
    BY <2>4, <2>5, UpTo
  <2>7. l \in 0 .. l
    OBVIOUS
  <2> QED
    BY <2>2, <2>6, <2>7, <2>l DEF S
<1> QED
  BY <1>1, <1>2

LEMMA WordsOfMore ==
    ASSUME NEW segs \in Seq(Grouping), NEW g \in Grouping
    PROVE  WordsOf(segs) \in Seq(Nat) /\ WordsOf(Append(segs, g)) = WordsOf(segs) \o g.words
<1> DEFINE ws == [i \in DOMAIN segs |-> segs[i].words]
           more == Append(segs, g)
<1>1. ws \in Seq(Seq(Nat)) /\ g.words \in Seq(Nat)
  <2>1. \A i \in DOMAIN segs : segs[i] \in Grouping
    OBVIOUS
  <2>2. DOMAIN segs = 1 .. Len(segs) /\ Len(segs) \in Nat
    OBVIOUS
  <2> QED
    BY <2>1, <2>2 DEF Grouping
<1>2. [i \in DOMAIN more |-> more[i].words] = Append(ws, g.words)
  <2>1. /\ DOMAIN more = 1 .. Len(segs) + 1 /\ DOMAIN ws = 1 .. Len(segs) /\ Len(segs) \in Nat
        /\ \A i \in 1 .. Len(segs) : more[i] = segs[i]
        /\ more[Len(segs) + 1] = g /\ Len(ws) = Len(segs)
    OBVIOUS
  <2> HIDE DEF more
  <2>2. \A i \in DOMAIN more : i \in 1 .. Len(segs) \/ i = Len(segs) + 1
    BY <2>1
  <2>3. Append(ws, g.words) = [i \in 1 .. Len(segs) + 1 |->
                                  IF i = Len(segs) + 1 THEN g.words ELSE ws[i]]
    BY <1>1, <2>1
  <2>4. \A i \in DOMAIN more :
           more[i].words = IF i = Len(segs) + 1 THEN g.words ELSE ws[i]
    BY <2>1, <2>2
  <2> QED
    BY <2>1, <2>3, <2>4
<1>3. WordsOf(segs) = FlattenSeq(ws) /\ WordsOf(more) = FlattenSeq(Append(ws, g.words))
  BY <1>2 DEF WordsOf
<1> HIDE DEF ws, more
<1>4. FlattenSeq(ws) \in Seq(Nat) /\ FlattenSeq(Append(ws, g.words)) = FlattenSeq(ws) \o g.words
  BY <1>1, FlattenType, FlattenAppend
<1> QED
  BY <1>3, <1>4 DEF more

(* A stamp opens a segment, or goes on with the last.                      *)
Opens(segs, x) ==
    \/ segs = <<>>
    \/ ~x.glue /\ \/ x.start - Last(segs).end >= GROUP_GAP_SEC
                  \/ x.end - Last(segs).start > GROUP_MAX_SEC

(* What a stamp that opens a segment does, and one that goes on.           *)
LEMMA Opening ==
    ASSUME NEW segs \in Seq(Grouping), NEW x \in HeardWord, Opens(segs, x)
    PROVE  /\ Grouped(segs, x) = Append(segs, Segment(x)) /\ Segment(x) \in Grouping
           /\ Grouped(segs, x) \in Seq(Grouping)
<1>1. Segment(x) \in Grouping
  BY DEF Segment, Grouping, HeardWord
<1>2. CASE segs = <<>>
  <2>1. Append(<<>>, Segment(x)) = <<Segment(x)>>
    OBVIOUS
  <2> QED
    BY <1>1, <1>2, <2>1 DEF Grouped
<1>3. CASE segs # <<>>
  BY <1>1, <1>3 DEF Grouped, Opens
<1> QED
  BY <1>2, <1>3

LEMMA GoingOn ==
    ASSUME NEW segs \in Seq(Grouping), NEW x \in HeardWord, ~Opens(segs, x)
    PROVE  LET n   == Len(segs)
               cur == [start |-> segs[n].start, end |-> LargerOf(segs[n].end, x.end),
                       words |-> Append(segs[n].words, x.word)]
           IN  /\ n \in Nat \ {0} /\ segs[n] \in Grouping /\ cur \in Grouping
               /\ Front(segs) \in Seq(Grouping) /\ Append(Front(segs), segs[n]) = segs
               /\ Grouped(segs, x) = Append(Front(segs), cur)
               /\ Grouped(segs, x) \in Seq(Grouping) /\ Len(Grouped(segs, x)) = n
               /\ \A i \in 1 .. n - 1 : Grouped(segs, x)[i] = segs[i]
               /\ Grouped(segs, x)[n] = cur
<1>1. PICK n \in Nat \ {0} : n = Len(segs)
  BY EmptySeq DEF Opens
<1> DEFINE cur == [start |-> segs[n].start, end |-> LargerOf(segs[n].end, x.end),
                   words |-> Append(segs[n].words, x.word)]
<1>2. segs[n] \in Grouping /\ Last(segs) = segs[n]
  BY <1>1 DEF Last
<1>3. cur \in Grouping
  BY <1>2 DEF Grouping, HeardWord, LargerOf
<1>4. [segs[n] EXCEPT !.words = Append(@, x.word), !.end = LargerOf(@, x.end)] = cur
  <2>1. PICK g \in Grouping : g = segs[n]
    BY <1>2
  <2>2. ASSUME NEW v \in Seq(Nat), NEW e \in Int
        PROVE  [g EXCEPT !.words = v, !.end = e] = [start |-> g.start, end |-> e, words |-> v]
    <3> DEFINE r == [g EXCEPT !.words = v, !.end = e]
    <3>1. r \in Grouping /\ r.start = g.start /\ r.end = e /\ r.words = v
      BY DEF Grouping
    <3> HIDE DEF r
    <3>2. r = [start |-> r.start, end |-> r.end, words |-> r.words]
      BY <3>1 DEF Grouping
    <3> QED
      BY <3>1, <3>2 DEF r
  <2>3. Append(g.words, x.word) \in Seq(Nat) /\ LargerOf(g.end, x.end) \in Int
    BY DEF Grouping, HeardWord, LargerOf
  <2>4. [g EXCEPT !.words = Append(g.words, x.word), !.end = LargerOf(g.end, x.end)] =
            [start |-> g.start, end |-> LargerOf(g.end, x.end),
             words |-> Append(g.words, x.word)]
    BY <2>2, <2>3
  <2> QED
    BY <2>1, <2>4
<1>5. Grouped(segs, x) = Append(Front(segs), cur)
  BY <1>1, <1>2, <1>4 DEF Grouped, Opens
<1> HIDE DEF cur
<1>6. PICK fr : fr = Front(segs)
  OBVIOUS
<1>7. /\ fr \in Seq(Grouping) /\ Len(fr) = n - 1
      /\ \A i \in 1 .. n - 1 : fr[i] = segs[i]
  BY <1>1, <1>6 DEF Front
<1>8. Append(fr, segs[n]) = segs
  BY <1>1, <1>2, <1>7
<1>9. /\ Append(fr, cur) \in Seq(Grouping) /\ Len(Append(fr, cur)) = n
      /\ \A i \in 1 .. n - 1 : Append(fr, cur)[i] = segs[i]
      /\ Append(fr, cur)[n] = cur
  BY <1>1, <1>3, <1>7
<1> QED
  BY <1>1, <1>2, <1>3, <1>5, <1>6, <1>7, <1>8, <1>9 DEF cur

(* Either way its word comes behind the others.                            *)
LEMMA GroupedWords ==
    ASSUME NEW segs \in Seq(Grouping), NEW x \in HeardWord
    PROVE  WordsOf(Grouped(segs, x)) = Append(WordsOf(segs), x.word)
<1>0. x.word \in Nat
  BY DEF HeardWord
<1>1. CASE Opens(segs, x)
  <2>1. WordsOf(Grouped(segs, x)) = WordsOf(segs) \o Segment(x).words
    BY <1>1, Opening, WordsOfMore
  <2>2. WordsOf(segs) \in Seq(Nat)
    BY <1>1, Opening, WordsOfMore
  <2>3. Segment(x).words = <<x.word>>
    BY DEF Segment
  <2> QED
    BY <1>0, <2>1, <2>2, <2>3
<1>2. CASE ~Opens(segs, x)
  <2> DEFINE n   == Len(segs)
             fr  == Front(segs)
             cur == [start |-> segs[n].start, end |-> LargerOf(segs[n].end, x.end),
                     words |-> Append(segs[n].words, x.word)]
  <2>1. /\ segs[n] \in Grouping /\ cur \in Grouping
        /\ fr \in Seq(Grouping) /\ Append(fr, segs[n]) = segs
        /\ Grouped(segs, x) = Append(fr, cur)
    BY <1>2, GoingOn
  <2>2. /\ WordsOf(fr) \in Seq(Nat)
        /\ WordsOf(Append(fr, cur)) = WordsOf(fr) \o cur.words
        /\ WordsOf(Append(fr, segs[n])) = WordsOf(fr) \o segs[n].words
    <3> HIDE DEF fr, cur, n
    <3> QED
      BY <2>1, WordsOfMore
  <2>3. segs[n].words \in Seq(Nat) /\ cur.words = Append(segs[n].words, x.word)
    BY <2>1 DEF Grouping
  <2>4. ASSUME NEW s \in Seq(Nat), NEW t \in Seq(Nat)
        PROVE  s \o Append(t, x.word) = Append(s \o t, x.word)
    BY <1>0
  <2> HIDE DEF fr, cur, n
  <2>5. WordsOf(segs) = WordsOf(fr) \o segs[n].words
    BY <2>1, <2>2
  <2>6. WordsOf(Grouped(segs, x)) = WordsOf(fr) \o Append(segs[n].words, x.word)
    BY <2>1, <2>2, <2>3
  <2> QED
    BY <2>2, <2>3, <2>4, <2>5, <2>6
<1> QED
  BY <1>1, <1>2

(* The segments after n stamps.                                            *)
NextGrouped(s, f, n) == IF n = 0 THEN <<>> ELSE Grouped(f[n - 1], s[n])

(* The recursion of _group_words has a solution: one step for every stamp. *)
LEMMA GroupsExist ==
    ASSUME NEW s, NEW L \in Nat
    PROVE  \E f : f = [n \in 0 .. L |-> NextGrouped(s, f, n)]
<1> DEFINE S == {m \in 0 .. L : \E f : f = [n \in 0 .. m |-> NextGrouped(s, f, n)]}
<1>1. 0 \in S
  <2> DEFINE f == [n \in 0 .. 0 |-> <<>>]
  <2>1. f = [n \in 0 .. 0 |-> NextGrouped(s, f, n)]
    BY DEF NextGrouped
  <2> HIDE DEF f
  <2>2. 0 \in 0 .. L
    OBVIOUS
  <2> QED
    BY <2>1, <2>2
<1>2. ASSUME NEW m \in 0 .. L - 1, m \in S PROVE m + 1 \in S
  <2>1. PICK f : f = [n \in 0 .. m |-> NextGrouped(s, f, n)]
    BY <1>2
  <2> DEFINE g == [n \in 0 .. m + 1 |-> IF n <= m THEN f[n] ELSE NextGrouped(s, f, n)]
  <2>2. \A n \in 0 .. m : g[n] = f[n]
    OBVIOUS
  <2>3. ASSUME NEW n \in 0 .. m + 1 PROVE g[n] = NextGrouped(s, g, n)
    <3>1. n = 0 \/ g[n - 1] = f[n - 1]
      BY <2>2
    <3>2. NextGrouped(s, g, n) = NextGrouped(s, f, n)
      BY <3>1 DEF NextGrouped
    <3>3. g[n] = NextGrouped(s, f, n)
      BY <2>1
    <3> QED
      BY <3>2, <3>3
  <2>4. g = [n \in 0 .. m + 1 |-> NextGrouped(s, g, n)]
    BY <2>3
  <2> HIDE DEF g
  <2> QED
    BY <2>4
<1> HIDE DEF S
<1>3. 0 .. L \subseteq S
  BY <1>1, <1>2, UpTo
<1> QED
  BY <1>3 DEF S

LEMMA GroupedInSteps ==
    ASSUME NEW T, NEW s \in Seq(T)
    PROVE  \E f : /\ f[0] = <<>> /\ \A n \in 1 .. Len(s) : f[n] = Grouped(f[n - 1], s[n])
                  /\ _group_words(s) = f[Len(s)]
<1>0. PICK L \in Nat : L = Len(s)
  OBVIOUS
<1> DEFINE F == CHOOSE f : f = [n \in 0 .. L |->
                                   IF n = 0 THEN <<>> ELSE Grouped(f[n - 1], s[n])]
<1>1. F = [n \in 0 .. L |-> NextGrouped(s, F, n)]
  BY GroupsExist DEF NextGrouped
<1>2. _group_words(s) = F[Len(s)]
  BY <1>0 DEF _group_words
<1> HIDE DEF F
<1>3. F[0] = <<>>
  BY <1>1 DEF NextGrouped
<1>4. \A n \in 1 .. L : F[n] = Grouped(F[n - 1], s[n])
  BY <1>1 DEF NextGrouped
<1> QED
  BY <1>0, <1>2, <1>3, <1>4

(* Segments hold the words of the first n stamps, from the start of the    *)
(* first one to the end of the n-th.                                       *)
HoldFirst(segs, s, n) ==
    /\ segs \in Seq(Grouping)
    /\ WordsOf(segs) = [i \in 1 .. n |-> s[i].word]
    /\ n = 0 => segs = <<>>
    /\ n > 0 => /\ Len(segs) > 0 /\ segs[1].start = s[1].start
                /\ segs[Len(segs)].end = s[n].end

(* Each step keeps HoldFirst, so the segments hold all the stamps.         *)
LEMMA NoWords == WordsOf(<<>>) = <<>>
<1>1. [i \in DOMAIN <<>> |-> <<>>[i].words] = <<>>
  OBVIOUS
<1> QED
  BY <1>1, FlattenEmpty DEF WordsOf

LEMMA HoldOneMore ==
    ASSUME NEW s \in Seq(HeardWord), Timed(s), NEW n \in Nat, n < Len(s),
           NEW segs, HoldFirst(segs, s, n)
    PROVE  HoldFirst(Grouped(segs, s[n + 1]), s, n + 1)
<1>1. PICK x \in HeardWord : x = s[n + 1]
  OBVIOUS
<1>2. segs \in Seq(Grouping) /\ WordsOf(segs) = [i \in 1 .. n |-> s[i].word]
  BY DEF HoldFirst
<1>3. WordsOf(Grouped(segs, x)) = [i \in 1 .. n + 1 |-> s[i].word]
  <2>1. \A i \in 1 .. n + 1 : s[i].word \in Nat
    <3>1. \A i \in 1 .. n + 1 : s[i] \in HeardWord
      OBVIOUS
    <3> QED
      BY <3>1 DEF HeardWord
  <2>2. PICK v : v = [i \in 1 .. n |-> s[i].word]
    OBVIOUS
  <2>3. v \in Seq(Nat) /\ Len(v) = n /\ x.word = s[n + 1].word /\ x.word \in Nat
    BY <1>1, <2>1, <2>2
  <2>4. Append(v, x.word) = [i \in 1 .. n + 1 |-> IF i <= n THEN v[i] ELSE x.word]
    BY <2>3
  <2>5. \A i \in 1 .. n + 1 : (IF i <= n THEN v[i] ELSE x.word) = s[i].word
    BY <2>2, <2>3
  <2>6. Append(v, x.word) = [i \in 1 .. n + 1 |-> s[i].word]
    BY <2>4, <2>5
  <2> QED
    BY <1>2, <2>2, <2>6, GroupedWords
<1>4. s[n + 1].end \in Int
  BY DEF Timed
<1>5. n > 0 => s[n].end \in Int /\ s[n].end <= s[n + 1].end
  <2>1. n > 0 => n \in DOMAIN s /\ n + 1 \in DOMAIN s /\ n < n + 1
    OBVIOUS
  <2> QED
    BY <2>1 DEF Timed
<1>6. CASE Opens(segs, x)
  <2>1. Grouped(segs, x) = Append(segs, Segment(x)) /\ Segment(x) \in Grouping
        /\ Grouped(segs, x) \in Seq(Grouping)
    BY <1>2, <1>6, Opening
  <2>2. Segment(x).start = x.start /\ Segment(x).end = x.end
    BY DEF Segment
  <2>3. Len(Append(segs, Segment(x))) = Len(segs) + 1
        /\ Append(segs, Segment(x))[Len(segs) + 1] = Segment(x)
        /\ Len(segs) \in Nat /\ (segs = <<>> => Len(segs) = 0)
    BY <1>2, <2>1
  <2>4. Len(segs) > 0 => Append(segs, Segment(x))[1] = segs[1]
    BY <1>2, <2>1
  <2>5. PICK r : r = Grouped(segs, x)
    OBVIOUS
  <2>6. Len(r) > 0 /\ r[Len(r)].end = s[n + 1].end
    BY <1>1, <2>1, <2>2, <2>3, <2>5
  <2>7. r[1].start = s[1].start
    <3>1. CASE n = 0
      <4>1. Len(segs) = 0
        BY <2>3, <3>1 DEF HoldFirst
      <4> QED
        BY <1>1, <2>1, <2>2, <2>3, <2>5, <3>1, <4>1
    <3>2. CASE n > 0
      BY <2>1, <2>4, <2>5, <3>2 DEF HoldFirst
    <3> QED
      BY <3>1, <3>2
  <2> QED
    BY <1>1, <1>3, <2>1, <2>5, <2>6, <2>7 DEF HoldFirst
<1>7. CASE ~Opens(segs, x)
  <2>1. PICK l \in Nat \ {0} : l = Len(segs)
    BY <1>2, <1>7, GoingOn
  <2>2. n > 0
    BY <2>1 DEF HoldFirst
  <2>3. PICK r : r = Grouped(segs, x)
    OBVIOUS
  <2>4. /\ r \in Seq(Grouping) /\ Len(r) = l /\ \A i \in 1 .. l - 1 : r[i] = segs[i]
        /\ r[l].start = segs[l].start /\ r[l].end = LargerOf(segs[l].end, x.end)
    <3> DEFINE m == Len(segs)
               cur == [start |-> segs[m].start, end |-> LargerOf(segs[m].end, x.end),
                       words |-> Append(segs[m].words, x.word)]
               q == Grouped(segs, x)
    <3>1. /\ q \in Seq(Grouping) /\ Len(q) = m
          /\ \A i \in 1 .. m - 1 : q[i] = segs[i]
          /\ q[m] = cur
      BY <1>2, <1>7, GoingOn
    <3>2. cur.start = segs[m].start /\ cur.end = LargerOf(segs[m].end, x.end)
      OBVIOUS
    <3> HIDE DEF cur, q
    <3> QED
      BY <2>1, <2>3, <3>1, <3>2 DEF q
  <2>5. segs[1].start = s[1].start /\ segs[l].end = s[n].end
    BY <2>1, <2>2 DEF HoldFirst
  <2>6. r[1].start = s[1].start
    BY <2>1, <2>4, <2>5
  <2>7. r[l].end = s[n + 1].end
    BY <1>1, <1>4, <1>5, <2>2, <2>4, <2>5 DEF LargerOf
  <2> QED
    BY <1>1, <1>3, <2>1, <2>3, <2>4, <2>6, <2>7 DEF HoldFirst
<1> QED
  BY <1>6, <1>7

(* Whatever the pauses: segments keep every word, in order, and reach from *)
(* the first stamp to the last.                                            *)
LEMMA GroupsHoldAll ==
    ASSUME NEW s \in Seq(HeardWord), Timed(s)
    PROVE  HoldFirst(_group_words(s), s, Len(s))
<1>0. PICK L \in Nat : L = Len(s)
  OBVIOUS
<1>1. PICK f : /\ f[0] = <<>> /\ \A n \in 1 .. L : f[n] = Grouped(f[n - 1], s[n])
               /\ _group_words(s) = f[L]
  BY <1>0, GroupedInSteps
<1> DEFINE S == {n \in 0 .. L : HoldFirst(f[n], s, n)}
<1>2. 0 \in S
  <2>1. <<>> \in Seq(Grouping) /\ [i \in 1 .. 0 |-> s[i].word] = <<>>
    OBVIOUS
  <2>2. HoldFirst(<<>>, s, 0)
    BY <2>1, NoWords DEF HoldFirst
  <2> QED
    BY <1>1, <2>2
<1>3. ASSUME NEW n \in 0 .. L - 1, n \in S PROVE n + 1 \in S
  <2>1. n \in Nat /\ n < Len(s) /\ n + 1 \in 1 .. L /\ (n + 1) - 1 = n
    BY <1>0
  <2>2. HoldFirst(f[n], s, n)
    BY <1>3
  <2>3. HoldFirst(Grouped(f[n], s[n + 1]), s, n + 1)
    BY <2>1, <2>2, HoldOneMore
  <2>4. f[n + 1] = Grouped(f[n], s[n + 1])
    BY <1>1, <2>1
  <2> QED
    BY <2>1, <2>3, <2>4
<1> HIDE DEF S
<1>4. 0 .. L \subseteq S
  BY <1>2, <1>3, UpTo
<1>5. L \in S
  BY <1>4
<1> QED
  BY <1>0, <1>1, <1>5 DEF S

(* What a window hears, in its own time: the a + 1 st word to the b-th.    *)
HeardAs(zs, s, w, a, b) ==
    /\ a <= b /\ Heard(s, w) = a + 1 .. b
    /\ zs \in Seq(HeardWord) /\ Len(zs) = b - a
    /\ \A k \in 1 .. b - a : /\ zs[k].word = s[a + k].word
                             /\ zs[k].start = LargerOf(s[a + k].start, w.from) - w.from
                             /\ zs[k].end = LeastOf(s[a + k].end, w.to) - w.from
                             /\ zs[k].glue = s[a + k].glue

(* So does Transcribed.                                                    *)
LEMMA TranscribedIs ==
    ASSUME NEW s \in Seq(HeardWord), Timed(s), NEW w, w.from \in Int, w.to \in Int
    PROVE  \E a, b \in 0 .. Len(s) : HeardAs(Transcribed(s, w), s, w, a, b)
<1>1. PICK a, b \in 0 .. Len(s) :
         /\ a <= b /\ Heard(s, w) = a + 1 .. b
         /\ At(s, Heard(s, w)) = [k \in 1 .. b - a |-> s[a + k]]
  BY HeardIs
<1>2. PICK n \in Nat : n = b - a /\ \A k \in 1 .. n : a + k \in DOMAIN s
  BY <1>1
<1> DEFINE inside == At(s, Heard(s, w))
           Moves(x) == [x EXCEPT !.start = LargerOf(@, w.from) - w.from,
                                 !.end   = LeastOf(@, w.to) - w.from]
           u(x) == LargerOf(x.start, w.from) - w.from
           v(x) == LeastOf(x.end, w.to) - w.from
           ys == [k \in 1 .. n |-> Moves(s[a + k])]
<1>3. Transcribed(s, w) = [i \in DOMAIN inside |-> Moves(inside[i])]
  BY DEF Transcribed, Heard
<1>4. Transcribed(s, w) = ys
  <2>1. inside = [k \in 1 .. n |-> s[a + k]]
    BY <1>1, <1>2
  <2> HIDE DEF inside, Moves
  <2>2. DOMAIN inside = 1 .. n /\ \A k \in 1 .. n : inside[k] = s[a + k]
    BY <2>1
  <2> QED
    BY <1>3, <2>2
<1>5. ASSUME NEW k \in 1 .. n
      PROVE  /\ ys[k] \in HeardWord /\ ys[k].word = s[a + k].word
             /\ ys[k].start = u(s[a + k]) /\ ys[k].end = v(s[a + k])
             /\ ys[k].glue = s[a + k].glue
  <2>1. PICK x \in HeardWord : x = s[a + k]
    BY <1>2
  <2>2. x.start \in Int /\ x.end \in Int
    BY DEF HeardWord
  <2>3. u(x) \in Int /\ v(x) \in Int
    BY <2>2 DEF LargerOf, LeastOf
  <2>4. Moves(x) = [x EXCEPT !.start = u(x), !.end = v(x)]
    OBVIOUS
  <2>5. /\ Moves(x) \in HeardWord /\ Moves(x).word = x.word /\ Moves(x).glue = x.glue
        /\ Moves(x).start = u(x) /\ Moves(x).end = v(x)
    <3> PICK p, q \in Int : p = u(x) /\ q = v(x)
      BY <2>3
    <3>1. [x EXCEPT !.start = p, !.end = q] \in HeardWord
          /\ [x EXCEPT !.start = p, !.end = q].word = x.word
          /\ [x EXCEPT !.start = p, !.end = q].glue = x.glue
          /\ [x EXCEPT !.start = p, !.end = q].start = p
          /\ [x EXCEPT !.start = p, !.end = q].end = q
      BY DEF HeardWord
    <3> HIDE DEF u, v
    <3>2. Moves(x) = [x EXCEPT !.start = p, !.end = q]
      BY <2>4
    <3> HIDE DEF Moves
    <3> QED
      BY <3>1, <3>2
  <2> HIDE DEF Moves
  <2>6. ys[k] = Moves(s[a + k])
    OBVIOUS
  <2> QED
    BY <2>1, <2>5, <2>6
<1>6. ys \in Seq(HeardWord) /\ Len(ys) = n
  <2>1. \A k \in 1 .. n : ys[k] \in HeardWord
    BY <1>5
  <2>2. DOMAIN ys = 1 .. n
    OBVIOUS
  <2>3. ys = [k \in 1 .. n |-> ys[k]]
    OBVIOUS
  <2> HIDE DEF ys
  <2> QED
    BY <2>1, <2>2, <2>3
<1> HIDE DEF ys
<1>7. HeardAs(ys, s, w, a, b)
  BY <1>1, <1>2, <1>5, <1>6 DEF HeardAs
<1> QED
  BY <1>1, <1>4, <1>7

(* _attach_display_text changes no more than what is written between words.*)
AttachedAs(t, s) ==
    /\ t \in Seq(HeardWord) /\ Len(t) = Len(s)
    /\ \A k \in 1 .. Len(s) : t[k].word = s[k].word /\ t[k].start = s[k].start
                              /\ t[k].end = s[k].end /\ (t[k].glue => s[k].glue)

LEMMA AttachedIs ==
    ASSUME NEW s \in Seq(HeardWord)
    PROVE  AttachedAs(_attach_display_text(s), s)
<1>1. PICK n \in Nat : n = Len(s) /\ DOMAIN s = 1 .. n
  OBVIOUS
<1>2. ASSUME NEW x \in HeardWord, NEW g \in BOOLEAN
      PROVE  LET y == [x EXCEPT !.glue = @ /\ g]
             IN  y \in HeardWord /\ y.word = x.word /\ y.start = x.start /\ y.end = x.end
                 /\ (y.glue => x.glue)
  BY DEF HeardWord
<1> DEFINE t == _attach_display_text(s)
<1>3. t = [k \in 1 .. n |-> [s[k] EXCEPT !.glue = @ /\ k > 1]]
  BY <1>1 DEF _attach_display_text
<1>4. ASSUME NEW k \in 1 .. n
      PROVE  t[k] \in HeardWord /\ t[k].word = s[k].word /\ t[k].start = s[k].start
             /\ t[k].end = s[k].end /\ (t[k].glue => s[k].glue)
  <2>x. PICK x \in HeardWord : x = s[k]
    BY <1>1
  <2> DEFINE g == k > 1
             y == [x EXCEPT !.glue = @ /\ g]
  <2>1. g \in BOOLEAN
    OBVIOUS
  <2>2. t[k] = y
    BY <1>3, <2>x
  <2> HIDE DEF g
  <2>3. y \in HeardWord /\ y.word = x.word /\ y.start = x.start /\ y.end = x.end
        /\ (y.glue => x.glue)
    BY <1>2, <2>1
  <2> HIDE DEF t, y
  <2> QED
    BY <2>x, <2>2, <2>3
<1>5. DOMAIN t = 1 .. n
  BY <1>3
<1> HIDE DEF t
<1>6. t = [k \in 1 .. n |-> t[k]]
  BY <1>3, <1>5
<1>7. t \in Seq(HeardWord) /\ Len(t) = n
  BY <1>4, <1>5, <1>6
<1> QED
  BY <1>1, <1>4, <1>7 DEF t, AttachedAs

(* Shifted moves every stamp by as much.                                   *)
LEMMA ShiftedIs ==
    ASSUME NEW s \in Seq(HeardWord), NEW o \in Int
    PROVE  LET t == Shifted(s, o)
           IN  /\ t \in Seq(HeardWord) /\ Len(t) = Len(s)
               /\ \A k \in 1 .. Len(s) : t[k].word = s[k].word /\ t[k].start = s[k].start + o
                                         /\ t[k].end = s[k].end + o
<1>1. PICK n \in Nat : n = Len(s) /\ DOMAIN s = 1 .. n
  OBVIOUS
<1>2. ASSUME NEW x \in HeardWord
      PROVE  LET y == [x EXCEPT !.start = @ + o, !.end = @ + o]
             IN  y \in HeardWord /\ y.word = x.word /\ y.start = x.start + o /\ y.end = x.end + o
  <2>1. PICK p, q \in Int : p = x.start + o /\ q = x.end + o
    BY DEF HeardWord
  <2> DEFINE y == [x EXCEPT !.start = p, !.end = q]
  <2>2. y \in HeardWord /\ y.word = x.word /\ y.start = p /\ y.end = q
    BY DEF HeardWord
  <2> QED
    BY <2>1, <2>2
<1> DEFINE t == Shifted(s, o)
<1>3. t = [k \in 1 .. n |-> [s[k] EXCEPT !.start = @ + o, !.end = @ + o]]
  BY <1>1 DEF Shifted
<1>4. ASSUME NEW k \in 1 .. n
      PROVE  t[k] \in HeardWord /\ t[k].word = s[k].word /\ t[k].start = s[k].start + o
             /\ t[k].end = s[k].end + o
  <2>1. s[k] \in HeardWord
    BY <1>1
  <2>2. t[k] = [s[k] EXCEPT !.start = @ + o, !.end = @ + o]
    BY <1>3
  <2> HIDE DEF t
  <2> QED
    BY <1>2, <2>1, <2>2
<1>5. DOMAIN t = 1 .. n
  BY <1>3
<1> HIDE DEF t
<1>6. t = [k \in 1 .. n |-> t[k]]
  BY <1>3, <1>5
<1>7. t \in Seq(HeardWord) /\ Len(t) = n
  BY <1>4, <1>5, <1>6
<1> QED
  BY <1>1, <1>4, <1>7 DEF t

(* What a window hears, in the time of the recording.                      *)
InItsTime(s, w) == Shifted(_attach_display_text(Transcribed(s, w)), w.from)

(* With the words that were said.                                          *)
HearingOf(ys, s, w, a, b) ==
    /\ a <= b /\ ys \in Seq(HeardWord) /\ Hearing(ys, s, w, a, b)
    /\ \A k \in 1 .. b - a : ys[k].word = s[a + k].word

LEMMA HeardThere ==
    ASSUME NEW s \in Seq(HeardWord), Timed(s), NEW w, w.from \in Int, w.to \in Int
    PROVE  \E a, b \in 0 .. Len(s) : HearingOf(InItsTime(s, w), s, w, a, b)
<1> DEFINE zs == Transcribed(s, w)
           ts == _attach_display_text(zs)
           ys == Shifted(ts, w.from)
<1>h. PICK a, b \in 0 .. Len(s) : HeardAs(zs, s, w, a, b)
  BY TranscribedIs
<1>1. /\ a <= b /\ Heard(s, w) = a + 1 .. b
      /\ zs \in Seq(HeardWord) /\ Len(zs) = b - a
      /\ \A k \in 1 .. b - a : /\ zs[k].word = s[a + k].word
                               /\ zs[k].start = LargerOf(s[a + k].start, w.from) - w.from
                               /\ zs[k].end = LeastOf(s[a + k].end, w.to) - w.from
  BY <1>h DEF HeardAs
<1> HIDE DEF zs
<1>2. /\ ts \in Seq(HeardWord) /\ Len(ts) = Len(zs)
      /\ \A k \in 1 .. Len(zs) : ts[k].word = zs[k].word /\ ts[k].start = zs[k].start
                                 /\ ts[k].end = zs[k].end
  BY <1>1, AttachedIs DEF AttachedAs
<1> HIDE DEF ts
<1>3. /\ ys \in Seq(HeardWord) /\ Len(ys) = Len(ts)
      /\ \A k \in 1 .. Len(ts) : ys[k].word = ts[k].word /\ ys[k].start = ts[k].start + w.from
                                 /\ ys[k].end = ts[k].end + w.from
  BY <1>2, ShiftedIs
<1> HIDE DEF ys
<1>4. ASSUME NEW k \in 1 .. b - a PROVE Clipped(ys[k], s[a + k], w) /\ ys[k].word = s[a + k].word
  <2>1. /\ ys[k].start = (LargerOf(s[a + k].start, w.from) - w.from) + w.from
        /\ ys[k].end = (LeastOf(s[a + k].end, w.to) - w.from) + w.from
        /\ ys[k].word = s[a + k].word
    BY <1>1, <1>2, <1>3
  <2>2. a + k \in DOMAIN s
    BY <1>1
  <2>3. s[a + k].start \in Int /\ s[a + k].end \in Int
    BY <2>2 DEF Timed
  <2> QED
    BY <2>1, <2>3 DEF Clipped, LargerOf, LeastOf
<1>5. Hearing(ys, s, w, a, b)
  BY <1>1, <1>2, <1>3, <1>4 DEF Hearing
<1>6. HearingOf(ys, s, w, a, b)
  BY <1>1, <1>3, <1>4, <1>5 DEF HearingOf
<1> QED
  BY <1>6 DEF ys, ts, zs, InItsTime

(* What was heard whole is as R says: a set of pairs of what a window has  *)
(* and what was said.                                                      *)
Alike(ys, xs, R, a, b) == \A k \in 1 .. b - a :
    ys[k].start = xs[a + k].start /\ ys[k].end = xs[a + k].end => <<ys[k], xs[a + k]>> \in R

(* A window hears one range of what was said.                              *)
HeardPart(ys, xs, w, R) ==
    \E a, b \in Nat : a <= b /\ Hearing(ys, xs, w, a, b) /\ Alike(ys, xs, R, a, b)

(* What lies from after border c to border d.                              *)
OwnOf(kept, xs, U, R, c, d) ==
    /\ kept \in Seq(U) /\ Len(kept) = d - c
    /\ \A k \in 1 .. d - c : /\ kept[k].start = xs[c + k].start /\ kept[k].end = xs[c + k].end
                             /\ <<kept[k], xs[c + k]>> \in R

(* What a window keeps is its own part.                                    *)
LEMMA OwnPartIs ==
    ASSUME NEW T, NEW xs \in Seq(T), Timed(xs), Short(xs),
           NEW w, NEW lo, NEW hi, NEW p, NEW q, CutAt(xs, w, lo, hi, p, q),
           NEW U, NEW ys \in Seq(U), NEW R, HeardPart(ys, xs, w, R),
           NEW c, NEW d, Between(xs, lo, hi, p, q, c, d)
    PROVE  OwnOf(Belonging(ys, lo, hi, p, q), xs, U, R, c, d)
<1>1. PICK a, b \in Nat : a <= b /\ Hearing(ys, xs, w, a, b) /\ Alike(ys, xs, R, a, b)
  BY DEF HeardPart
<1>c. c \in Nat /\ d \in Nat /\ c <= d
  <2>1. c \in 0 .. Len(xs) /\ d \in 0 .. Len(xs) /\ c <= d /\ Len(xs) \in Nat
    BY LenProperties DEF Between
  <2> QED
    BY <2>1
<1>2. PICK e \in Int : e = c - a
  BY <1>c
<1>3. PICK m \in Nat : m = d - c
  BY <1>c
<1>4. PICK kept : kept = Belonging(ys, lo, hi, p, q)
  OBVIOUS
<1>5. /\ kept = [k \in 1 .. m |-> ys[e + k]]
      /\ \A k \in 1 .. m : /\ e + k \in 1 .. b - a
                           /\ ys[e + k].start = xs[c + k].start
                           /\ ys[e + k].end = xs[c + k].end
  BY <1>1, <1>2, <1>3, <1>4, OwnPart
<1>6. ASSUME NEW k \in 1 .. m
      PROVE  ys[e + k] \in U /\ <<ys[e + k], xs[c + k]>> \in R
  <2>1. PICK j \in 1 .. b - a : j = e + k /\ a + j = c + k
    <3>1. e + k \in 1 .. b - a /\ a + (e + k) = c + k
      <4>1. e + k \in 1 .. b - a
        BY <1>5
      <4>2. a \in Int /\ k \in Int /\ c \in Int /\ e = c - a
        BY <1>2, <1>c
      <4> QED
        BY <4>1, <4>2
    <3> QED
      BY <3>1, Zenon
  <2>2. ys[j] \in U
    BY <1>1 DEF Hearing
  <2>3. <<ys[j], xs[a + j]>> \in R
    BY <1>1, <1>5, <2>1 DEF Alike
  <2> QED
    BY <2>1, <2>2, <2>3
<1>7. kept \in Seq(U) /\ Len(kept) = m
  <2>1. PICK f : f = [k \in 1 .. m |-> ys[e + k]]
    OBVIOUS
  <2>2. f \in [1 .. m -> U]
    BY <1>6, <2>1
  <2>3. f \in Seq(U) /\ Len(f) = m
    BY <2>2
  <2>4. kept = f
    BY <1>5, <2>1
  <2> QED
    BY <2>3, <2>4
<1>8. \A k \in 1 .. m : kept[k] = ys[e + k]
  BY <1>5
<1> QED
  BY <1>3, <1>4, <1>5, <1>6, <1>7, <1>8 DEF OwnOf

(* N windows, each cut where the next one begins to own what it hears.     *)
Division(parts, xs, ws, cut, N, U, R) ==
    /\ cut \in [1 .. N + 1 -> Int]
    /\ \A i \in 2 .. N - 1 : cut[i] <= cut[i + 1]
    /\ \A i \in 1 .. N : /\ CutAt(xs, ws[i], cut[i], cut[i + 1], i = 1, i = N)
                         /\ parts[i] \in Seq(U) /\ HeardPart(parts[i], xs, ws[i], R)

(* What each of them keeps.                                                *)
Cuttings(parts, cut, N) ==
    [i \in 1 .. N |-> Belonging(parts[i], cut[i], cut[i + 1], i = 1, i = N)]

(* Together they have everything that was said once, in order, with its    *)
(* own times.                                                              *)
LEMMA CutsJoin ==
    ASSUME NEW T, NEW xs \in Seq(T), Timed(xs), Short(xs), NEW N \in Nat \ {0},
           NEW U, NEW R, NEW parts, NEW ws, NEW cut, Division(parts, xs, ws, cut, N, U, R)
    PROVE  OwnOf(FlattenSeq(Cuttings(parts, cut, N)), xs, U, R, 0, Len(xs))
<1>0. PICK L \in Nat : L = Len(xs) /\ DOMAIN xs = 1 .. L
  OBVIOUS
<1>b. PICK B : Bordered(B, xs, cut, N)
  <2>1. cut \in [1 .. N + 1 -> Int] /\ \A i \in 2 .. N - 1 : cut[i] <= cut[i + 1]
    BY DEF Division
  <2> QED
    BY <2>1, Borders, Zenon
<1>1. /\ B \in [0 .. N -> 0 .. Len(xs)]
      /\ B[0] = 0 /\ B[N] = Len(xs)
      /\ \A i \in 1 .. N : B[i - 1] <= B[i]
      /\ \A i \in 1 .. N : \A n \in DOMAIN xs :
            Within(xs[n], cut[i], cut[i + 1], i = 1, i = N) <=> B[i - 1] < n /\ n <= B[i]
  BY <1>b DEF Bordered
<1> DEFINE seqs == Cuttings(parts, cut, N)
<1>2. ASSUME NEW i \in 1 .. N PROVE OwnOf(seqs[i], xs, U, R, B[i - 1], B[i])
  <2>1. i \in 0 .. N /\ i - 1 \in 0 .. N
    OBVIOUS
  <2>2. Between(xs, cut[i], cut[i + 1], i = 1, i = N, B[i - 1], B[i])
    BY <1>1, <2>1 DEF Between
  <2>3. /\ CutAt(xs, ws[i], cut[i], cut[i + 1], i = 1, i = N)
        /\ parts[i] \in Seq(U) /\ HeardPart(parts[i], xs, ws[i], R)
    BY DEF Division
  <2>4. seqs[i] = Belonging(parts[i], cut[i], cut[i + 1], i = 1, i = N)
    BY DEF Cuttings
  <2> HIDE DEF seqs
  <2>5. PICK c, d, lo, hi, p, q : /\ c = B[i - 1] /\ d = B[i] /\ lo = cut[i] /\ hi = cut[i + 1]
                                  /\ p = (i = 1) /\ q = (i = N)
    OBVIOUS
  <2>6. Between(xs, lo, hi, p, q, c, d) /\ CutAt(xs, ws[i], lo, hi, p, q)
    BY <2>2, <2>3, <2>5
  <2>7. OwnOf(Belonging(parts[i], lo, hi, p, q), xs, U, R, c, d)
    BY <2>3, <2>6, OwnPartIs
  <2> QED
    BY <2>4, <2>5, <2>7
<1>3. DOMAIN seqs = 1 .. N /\ seqs = [i \in 1 .. N |-> seqs[i]]
  BY DEF Cuttings
<1> HIDE DEF seqs
<1>4. seqs \in Seq(Seq(U)) /\ Len(seqs) = N
  <2>1. \A i \in 1 .. N : seqs[i] \in Seq(U)
    BY <1>2 DEF OwnOf
  <2> QED
    BY <1>3, <2>1
<1>5. /\ B \in [0 .. N -> Nat] /\ B[0] = 0 /\ B[N] = L
      /\ \A i \in 1 .. N : Len(seqs[i]) = B[i] - B[i - 1]
  BY <1>0, <1>1, <1>2 DEF OwnOf
<1>6. PICK r : r = FlattenSeq(seqs)
  OBVIOUS
<1>7. r \in Seq(U) /\ Placed(r, seqs, B, N)
  BY <1>4, <1>5, <1>6, FlattenRanges
<1>8. ASSUME NEW n \in 1 .. L
      PROVE  /\ r[n].start = xs[n].start /\ r[n].end = xs[n].end /\ <<r[n], xs[n]>> \in R
  <2>1. PICK i \in 1 .. N : \E k \in 1 .. B[i] - B[i - 1] : n = B[i - 1] + k
    BY <1>5, <1>7 DEF Placed
  <2>2. PICK k \in 1 .. B[i] - B[i - 1] : n = B[i - 1] + k
    BY <2>1
  <2>3. r[n] = seqs[i][k]
    BY <1>7, <2>2 DEF Placed
  <2>4. /\ seqs[i][k].start = xs[n].start /\ seqs[i][k].end = xs[n].end
        /\ <<seqs[i][k], xs[n]>> \in R
    BY <1>2, <2>2 DEF OwnOf
  <2> QED
    BY <2>3, <2>4
<1>9. Len(r) = L - 0 /\ \A k \in 1 .. L - 0 : 0 + k = k /\ k \in 1 .. L
  BY <1>5, <1>7 DEF Placed
<1>10. OwnOf(r, xs, U, R, 0, L)
  BY <1>7, <1>8, <1>9 DEF OwnOf
<1> QED
  BY <1>0, <1>6, <1>10 DEF seqs

(* The same stamps, but for what is written between them.                  *)
SameStamps(r, t) ==
    /\ r \in Seq(HeardWord) /\ Len(r) = Len(t)
    /\ \A k \in 1 .. Len(t) : r[k].word = t[k].word /\ r[k].start = t[k].start
                              /\ r[k].end = t[k].end

(* They are in time alike.                                                 *)
LEMMA SameTimes ==
    ASSUME NEW t \in Seq(HeardWord), Timed(t), Short(t), NEW r, SameStamps(r, t)
    PROVE  Timed(r) /\ Short(r)
<1>1. DOMAIN r = 1 .. Len(t) /\ DOMAIN t = 1 .. Len(t)
  BY DEF SameStamps
<1>2. \A k \in 1 .. Len(t) : r[k].start = t[k].start /\ r[k].end = t[k].end
  BY DEF SameStamps
<1>3. Timed(r)
  BY <1>1, <1>2 DEF Timed
<1>4. Short(r)
  BY <1>1, <1>2 DEF Short
<1> QED
  BY <1>3, <1>4

(* What is heard of a talk by what lasts as long.                          *)
Inside(t, w) == \A k \in DOMAIN t : w.from <= t[k].start /\ t[k].end <= w.to

(* A window that lasts as long as the talk hears all of it.                *)
LEMMA AllHeard ==
    ASSUME NEW t \in Seq(HeardWord), Timed(t), NEW w, w.from = 0, w.to \in Int,
           Inside(t, w)
    PROVE  SameStamps(Transcribed(t, w), t)
<1>0. PICK L \in Nat : L = Len(t) /\ DOMAIN t = 1 .. L
  OBVIOUS
<1> DEFINE zs == Transcribed(t, w)
<1>h. PICK a, b \in 0 .. L : HeardAs(zs, t, w, a, b)
  <2>1. w.from \in Int
    OBVIOUS
  <2>2. \E a, b \in 0 .. Len(t) : HeardAs(zs, t, w, a, b)
    BY <2>1, TranscribedIs
  <2> QED
    BY <1>0, <2>2
<1> HIDE DEF zs
<1>1. /\ a <= b /\ Heard(t, w) = a + 1 .. b
      /\ zs \in Seq(HeardWord) /\ Len(zs) = b - a
      /\ \A k \in 1 .. b - a : /\ zs[k].word = t[a + k].word
                               /\ zs[k].start = LargerOf(t[a + k].start, w.from) - w.from
                               /\ zs[k].end = LeastOf(t[a + k].end, w.to) - w.from
  BY <1>h DEF HeardAs
<1>2. \A k \in 1 .. L : /\ t[k].start \in Int /\ t[k].end \in Int /\ t[k].start < t[k].end
                        /\ 0 <= t[k].start /\ t[k].end <= w.to
  BY <1>0 DEF Timed, Inside
<1>3. L # 0 => 1 \in Heard(t, w) /\ L \in Heard(t, w)
  BY <1>0, <1>2 DEF Heard
<1>4. L # 0 => a = 0 /\ b = L
  BY <1>1, <1>3
<1>l. b - a = L
  BY <1>4
<1>5. ASSUME NEW k \in 1 .. L
      PROVE  zs[k].word = t[k].word /\ zs[k].start = t[k].start /\ zs[k].end = t[k].end
  <2>1. k \in 1 .. b - a /\ a + k = k
    BY <1>4
  <2>2. /\ zs[k].word = t[k].word
        /\ zs[k].start = LargerOf(t[k].start, 0) - 0
        /\ zs[k].end = LeastOf(t[k].end, w.to) - 0
    BY <1>1, <2>1
  <2> QED
    BY <1>2, <2>2 DEF LargerOf, LeastOf
<1> QED
  BY <1>0, <1>1, <1>l, <1>5 DEF SameStamps, zs

(* The windows of a recording are a division of what was said in it.       *)
LEMMA WindowsDivide ==
    ASSUME NEW s \in Seq(HeardWord), Timed(s), NEW length \in Nat,
           Inside(s, [from |-> 0, to |-> length])
    PROVE  \E N \in Nat \ {0} : \E cut \in [1 .. N + 1 -> Int] :
              LET ws == _split_wav(length) IN
              /\ N = Len(ws) /\ DOMAIN ws = 1 .. N
              /\ \A i \in 2 .. N - 1 : cut[i] <= cut[i + 1]
              /\ \A i \in 1 .. N :
                    /\ cut[i] = ws[i].from + OVERLAP_SEC \div 2
                    /\ cut[i + 1] = ws[i].from + CHUNK_SEC + OVERLAP_SEC \div 2
                    /\ CutAt(s, ws[i], cut[i], cut[i + 1], i = 1, i = N)
<1>0. /\ CHUNK_SEC = 120 /\ OVERLAP_SEC = 8 /\ OVERLAP_SEC \div 2 = 4
      /\ CHUNK_SEC + OVERLAP_SEC = 128 /\ CHUNK_SEC + OVERLAP_SEC \div 2 = 124
  BY DEF CHUNK_SEC, OVERLAP_SEC
<1>i. \A n \in DOMAIN s : 0 <= s[n].start /\ s[n].end <= length
  BY DEF Inside
<1> DEFINE ws == _split_wav(length)
<1>1. \E N \in Nat \ {0} :
         /\ N = Len(ws) /\ DOMAIN ws = 1 .. N
         /\ \A i \in 1 .. N : /\ ws[i].from = (i - 1) * 120
                              /\ i = N => ws[i].to = length
                              /\ i # N => ws[i].to = i * 120 + 8
  <2>1. CASE length <= 128
    <3>1. ws = <<[from |-> 0, to |-> length]>>
      BY <1>0, <2>1 DEF _split_wav
    <3>2. Len(ws) = 1 /\ DOMAIN ws = 1 .. 1 /\ ws[1].from = 0 /\ ws[1].to = length
      BY <3>1
    <3> HIDE DEF ws
    <3> QED
      BY <3>2
  <2>2. CASE length > 128
    <3>1. PICK n \in Nat \ {0} :
              /\ Len(ws) = n
              /\ \A i \in 1 .. n : ws[i] = Window(i - 1, length)
              /\ (n - 1) * 120 + 8 < length
              /\ length <= n * 120 + 8
      BY <1>0, <2>2, Windows
    <3>2. DOMAIN ws = 1 .. Cardinality(WindowNumbers(length))
      BY <1>0, <2>2 DEF _split_wav
    <3>3. ws = [k \in 1 .. Cardinality(WindowNumbers(length)) |-> Window(k - 1, length)]
      BY <1>0, <2>2 DEF _split_wav
    <3> HIDE DEF ws
    <3>4. DOMAIN ws = 1 .. n
      <4>1. Cardinality(WindowNumbers(length)) \in Nat
        <5>1. IsFiniteSet(0 .. length \div CHUNK_SEC)
          BY <1>0, FS_Interval
        <5>2. WindowNumbers(length) \subseteq 0 .. length \div CHUNK_SEC
          BY DEF WindowNumbers
        <5> QED
          BY <5>1, <5>2, FS_Subset, FS_CardinalityType
      <4>2. Len(ws) = Cardinality(WindowNumbers(length))
        BY <3>3, <4>1
      <4> QED
        BY <3>1, <3>2, <4>2
    <3>5. ASSUME NEW i \in 1 .. n
          PROVE  /\ ws[i].from = (i - 1) * 120
                 /\ i = n => ws[i].to = length
                 /\ i # n => ws[i].to = i * 120 + 8
      <4>1. ws[i].from = (i - 1) * 120 /\ ws[i].to = LeastOf(length, ((i - 1) + 1) * 120 + 8)
        BY <1>0, <3>1 DEF Window
      <4>2. (i - 1) + 1 = i
        OBVIOUS
      <4>3. i # n => i * 120 <= (n - 1) * 120
        OBVIOUS
      <4> QED
        BY <3>1, <4>1, <4>2, <4>3 DEF LeastOf
    <3> QED
      BY <3>1, <3>4, <3>5
  <2> QED
    BY <2>1, <2>2
<1> HIDE DEF ws
<1>2. PICK N \in Nat \ {0} :
         /\ N = Len(ws) /\ DOMAIN ws = 1 .. N
         /\ \A i \in 1 .. N : /\ ws[i].from = (i - 1) * 120
                              /\ i = N => ws[i].to = length
                              /\ i # N => ws[i].to = i * 120 + 8
  BY <1>1
<1> DEFINE cut == [i \in 1 .. N + 1 |-> (i - 1) * 120 + 4]
<1>3. cut \in [1 .. N + 1 -> Int] /\ \A i \in 2 .. N - 1 : cut[i] <= cut[i + 1]
  OBVIOUS
<1>4. ASSUME NEW i \in 1 .. N
      PROVE  /\ cut[i] = ws[i].from + OVERLAP_SEC \div 2
             /\ cut[i + 1] = ws[i].from + CHUNK_SEC + OVERLAP_SEC \div 2
             /\ CutAt(s, ws[i], cut[i], cut[i + 1], i = 1, i = N)
  <2>1. cut[i] = (i - 1) * 120 + 4 /\ cut[i + 1] = i * 120 + 4
    OBVIOUS
  <2>2. cut[i] \in Int /\ cut[i + 1] \in Int
    OBVIOUS
  <2> HIDE DEF cut
  <2>3. ws[i].from = (i - 1) * 120 /\ ws[i].from \in Int /\ ws[i].to \in Int
    BY <1>2
  <2>4. cut[i] = ws[i].from + 4 /\ cut[i + 1] = ws[i].from + 120 + 4
    BY <2>1, <2>3
  <2>5. i = 1 => ws[i].from = 0
    BY <2>3
  <2>6. i # N => cut[i + 1] = ws[i].to - 4
    BY <1>2, <2>1
  <2>7. i = N => ws[i].to = length
    BY <1>2
  <2>8. CutAt(s, ws[i], cut[i], cut[i + 1], i = 1, i = N)
    <3>1. PICK p, q \in BOOLEAN : p = (i = 1) /\ q = (i = N)
      OBVIOUS
    <3>2. PICK lo, hi \in Int : lo = cut[i] /\ hi = cut[i + 1]
      BY <2>2
    <3>3. p => \A n \in DOMAIN s : ws[i].from <= s[n].start
      BY <1>i, <2>5, <3>1
    <3>4. q => \A n \in DOMAIN s : s[n].end <= ws[i].to
      BY <1>i, <2>7, <3>1
    <3>5. CutAt(s, ws[i], lo, hi, p, q)
      BY <1>0, <2>3, <2>4, <2>6, <3>1, <3>2, <3>3, <3>4 DEF CutAt
    <3> QED
      BY <3>1, <3>2, <3>5
  <2> QED
    BY <1>0, <2>4, <2>8
<1> HIDE DEF cut
<1> QED
  BY <1>2, <1>3, <1>4 DEF ws

(* What the windows of a recording keep: every word of it once, in order,  *)
(* with its own times.                                                     *)
AllKept(s, length) ==
    LET windows == _split_wav(length)
        Kept(i) == _shift_and_trim(_attach_display_text(Transcribed(s, windows[i])),
                                   windows[i].from, i = 1, i = Len(windows))
    IN  FlattenSeq([i \in DOMAIN windows |-> Kept(i)])

(* Nothing is lost at a border, nothing is kept twice.                     *)
LEMMA WindowsJoin ==
    ASSUME NEW s \in Seq(HeardWord), Timed(s), Short(s), NEW length \in Nat,
           Inside(s, [from |-> 0, to |-> length])
    PROVE  SameStamps(InTime(AllKept(s, length)), s)
<1> DEFINE ws == _split_wav(length)
<1>n. PICK N \in Nat \ {0} : \E cut \in [1 .. N + 1 -> Int] :
         /\ N = Len(ws) /\ DOMAIN ws = 1 .. N
         /\ \A i \in 2 .. N - 1 : cut[i] <= cut[i + 1]
         /\ \A i \in 1 .. N :
               /\ cut[i] = ws[i].from + OVERLAP_SEC \div 2
               /\ cut[i + 1] = ws[i].from + CHUNK_SEC + OVERLAP_SEC \div 2
               /\ CutAt(s, ws[i], cut[i], cut[i + 1], i = 1, i = N)
  BY WindowsDivide
<1>1. PICK cut \in [1 .. N + 1 -> Int] :
         /\ N = Len(ws) /\ DOMAIN ws = 1 .. N
         /\ \A i \in 2 .. N - 1 : cut[i] <= cut[i + 1]
         /\ \A i \in 1 .. N :
               /\ cut[i] = ws[i].from + OVERLAP_SEC \div 2
               /\ cut[i + 1] = ws[i].from + CHUNK_SEC + OVERLAP_SEC \div 2
               /\ CutAt(s, ws[i], cut[i], cut[i + 1], i = 1, i = N)
  BY <1>n
<1> DEFINE parts == [i \in 1 .. N |-> InItsTime(s, ws[i])]
           R == {p \in HeardWord \X HeardWord : p[1].word = p[2].word}
<1> HIDE DEF ws
<1>2. AllKept(s, length) = FlattenSeq(Cuttings(parts, cut, N))
  <2>1. ASSUME NEW i \in 1 .. N
        PROVE  _shift_and_trim(_attach_display_text(Transcribed(s, ws[i])), ws[i].from,
                               i = 1, i = N)
                = Belonging(parts[i], cut[i], cut[i + 1], i = 1, i = N)
    BY <1>1 DEF _shift_and_trim, InItsTime
  <2>2. [i \in DOMAIN ws |-> _shift_and_trim(_attach_display_text(Transcribed(s, ws[i])),
                                             ws[i].from, i = 1, i = Len(ws))]
         = Cuttings(parts, cut, N)
    BY <1>1, <2>1 DEF Cuttings
  <2> QED
    BY <2>2 DEF AllKept, ws
<1>3. ASSUME NEW i \in 1 .. N
      PROVE  parts[i] \in Seq(HeardWord) /\ HeardPart(parts[i], s, ws[i], R)
  <2>1. ws[i].from \in Int /\ ws[i].to \in Int
    BY <1>1 DEF CutAt
  <2>2. PICK w, ys : w = ws[i] /\ ys = InItsTime(s, w)
    OBVIOUS
  <2>h. PICK a, b \in 0 .. Len(s) : HearingOf(ys, s, w, a, b)
    BY <2>1, <2>2, HeardThere
  <2>3. /\ a <= b /\ ys \in Seq(HeardWord) /\ Hearing(ys, s, w, a, b)
        /\ \A k \in 1 .. b - a : ys[k].word = s[a + k].word
    BY <2>h DEF HearingOf
  <2>4. ASSUME NEW k \in 1 .. b - a PROVE <<ys[k], s[a + k]>> \in R
    <3>1. ys[k] \in HeardWord /\ s[a + k] \in HeardWord
      <4>1. Len(ys) = b - a /\ k \in 1 .. Len(ys) /\ a + k \in 1 .. Len(s)
        BY <2>3 DEF Hearing
      <4> QED
        BY <2>3, <4>1
    <3> QED
      BY <2>3, <3>1
  <2> HIDE DEF R
  <2>5. Alike(ys, s, R, a, b)
    BY <2>4 DEF Alike
  <2>6. a \in Nat /\ b \in Nat
    OBVIOUS
  <2>7. HeardPart(ys, s, w, R)
    BY <2>3, <2>5, <2>6 DEF HeardPart
  <2> QED
    BY <2>2, <2>3, <2>7
<1> HIDE DEF parts
<1>4. Division(parts, s, ws, cut, N, HeardWord, R)
  BY <1>1, <1>3 DEF Division
<1>5. PICK r : r = FlattenSeq(Cuttings(parts, cut, N))
  OBVIOUS
<1>6. PICK L \in Nat : L = Len(s)
  OBVIOUS
<1>7. OwnOf(r, s, HeardWord, R, 0, L)
  <2> HIDE DEF R
  <2> QED
    BY <1>4, <1>5, <1>6, CutsJoin
<1>8. SameStamps(r, s)
  <2>1. \A k \in 1 .. L - 0 : 0 + k = k /\ L - 0 = L
    OBVIOUS
  <2>2. \A k \in 1 .. L : r[k].start = s[k].start /\ r[k].end = s[k].end /\ <<r[k], s[k]>> \in R
    BY <1>7, <2>1 DEF OwnOf
  <2>3. \A k \in 1 .. L : r[k].word = s[k].word
    BY <2>2
  <2>4. r \in Seq(HeardWord) /\ Len(r) = L
    BY <1>7 DEF OwnOf
  <2> QED
    BY <1>6, <2>2, <2>3, <2>4 DEF SameStamps
<1>9. InTime(r) = r
  <2>1. Timed(r) /\ r \in Seq(HeardWord)
    BY <1>8, SameTimes DEF SameStamps
  <2>2. \A i \in DOMAIN r : r[i].start \in Int /\ r[i].end \in Int /\ r[i].start < r[i].end
    BY <2>1 DEF Timed
  <2>3. \A i, j \in DOMAIN r : i < j => r[i].end <= r[j].start
    BY <2>1 DEF Timed
  <2>4. \A i, j \in DOMAIN r : i < j => r[i].start < r[j].start
    BY <2>2, <2>3
  <2> QED
    BY <2>1, <2>2, <2>4, SortedStays
<1> QED
  BY <1>2, <1>5, <1>8, <1>9

(* What is assumed of a talk.                                              *)
LEMMA TalkIs ==
    ASSUME NEW t \in Talks
    PROVE  /\ t \in Seq(HeardWord) /\ t # <<>> /\ Timed(t) /\ Short(t)
           /\ \A k \in DOMAIN t : 0 <= t[k].start /\ t[k].end <= Last(t).end
<1>0. PICK L \in Nat \ {0} : L = Len(t) /\ DOMAIN t = 1 .. L
  BY EmptySeq, TalkAssumption
<1>1. t \in Seq(SpokenWord)
  BY TalkAssumption
<1>2. \A x \in SpokenWord : x \in HeardWord /\ x.start \in Nat /\ x.end \in Nat
  BY DEF SpokenWord, HeardWord
<1>3. \A k \in 1 .. L : t[k] \in HeardWord /\ t[k].start \in Nat /\ t[k].end \in Nat
  BY <1>0, <1>1, <1>2
<1>4. t \in Seq(HeardWord)
  <2>1. \A k \in 1 .. Len(t) : t[k] \in HeardWord
    BY <1>0, <1>3
  <2> QED
    BY <1>1, <2>1
<1>5. \A i \in 1 .. L : t[i].start < t[i].end /\ t[i].end - t[i].start <= OVERLAP_SEC
  BY <1>0, TalkAssumption
<1>6. \A i, j \in 1 .. L : i < j => t[i].end <= t[j].start
  BY <1>0, TalkAssumption
<1>7. Timed(t) /\ Short(t)
  BY <1>0, <1>3, <1>5, <1>6 DEF Timed, Short
<1>8. Last(t) = t[L]
  BY <1>0 DEF Last
<1>9. ASSUME NEW k \in 1 .. L PROVE t[k].end <= t[L].end
  <2>1. k = L \/ t[k].end <= t[L].start
    BY <1>6
  <2> QED
    BY <1>3, <1>5, <2>1
<1> QED
  BY <1>0, <1>3, <1>4, <1>7, <1>8, <1>9, TalkAssumption

(* A file that holds all that was said.                                    *)
LEMMA FileGroups ==
    ASSUME NEW t \in Seq(HeardWord), Timed(t), Short(t), NEW length \in Nat,
           Inside(t, [from |-> 0, to |-> length])
    PROVE  \E r : /\ SameStamps(r, t)
                  /\ transcribe_recording(t, [from |-> 0, to |-> length]) = _group_words(r)
<1> DEFINE w == [from |-> 0, to |-> length]
           s == Transcribed(t, w)
<1>1. w.from = 0 /\ w.to = length /\ w.to - w.from = length
  OBVIOUS
<1> HIDE DEF w
<1>2. SameStamps(s, t)
  BY <1>1, AllHeard DEF w
<1>3. s \in Seq(HeardWord) /\ Timed(s) /\ Short(s)
  BY <1>2, SameTimes DEF SameStamps
<1>4. Inside(s, w)
  <2>1. DOMAIN s = DOMAIN t /\ \A k \in DOMAIN t : s[k].start = t[k].start /\ s[k].end = t[k].end
    BY <1>2 DEF SameStamps
  <2> QED
    BY <2>1 DEF Inside, w
<1>5. transcribe_recording(t, w) = _group_words(InTime(AllKept(s, length)))
  BY <1>1 DEF transcribe_recording, AllKept
<1> HIDE DEF s
<1>6. SameStamps(InTime(AllKept(s, length)), s)
  BY <1>3, <1>4, WindowsJoin DEF w
<1>7. PICK r : r = InTime(AllKept(s, length))
  OBVIOUS
<1>8. SameStamps(r, t)
  BY <1>2, <1>6, <1>7 DEF SameStamps
<1> QED
  BY <1>5, <1>7, <1>8 DEF w

(* Whatever was said, however long the recording is and wherever the       *)
(* windows cut it: the transcript of the file has every word once and in   *)
(* order, from the first word's start to the last one's end (_split_wav,   *)
(* _shift_and_trim, _group_words).                                         *)
THEOREM FileKeepsWords == RecorderSpec => []WordsOnce
<1>1. RecorderInv => WordsOnce
  <2> SUFFICES ASSUME RecorderInv, ~Recording PROVE WordsOnce
    BY DEF WordsOnce
  <2>1. talk \in Talks /\ Last(talk).end <= total /\ total \in Nat
    BY DEF RecorderInv
  <2>2. /\ talk \in Seq(HeardWord) /\ talk # <<>> /\ Timed(talk) /\ Short(talk)
        /\ \A k \in DOMAIN talk : 0 <= talk[k].start /\ talk[k].end <= Last(talk).end
    BY <2>1, TalkIs
  <2>3. PICK L \in Nat \ {0} : L = Len(talk) /\ DOMAIN talk = 1 .. L
    BY <2>2, EmptySeq
  <2>4. talk[L].end \in Int /\ Last(talk) = talk[L]
    BY <2>2, <2>3 DEF Timed, Last
  <2>5. Inside(talk, [from |-> 0, to |-> total])
    BY <2>1, <2>2, <2>3, <2>4 DEF Inside, Timed
  <2>6. PICK r : SameStamps(r, talk) /\ FromFile = _group_words(r)
    BY <2>1, <2>2, <2>5, FileGroups DEF FromFile
  <2>7. r \in Seq(HeardWord) /\ Timed(r) /\ Len(r) = L
    BY <2>2, <2>3, <2>6, SameTimes DEF SameStamps
  <2>8. HoldFirst(FromFile, r, L)
    BY <2>6, <2>7, GroupsHoldAll
  <2>9. \A k \in 1 .. L : r[k].word = talk[k].word /\ r[k].start = talk[k].start
                          /\ r[k].end = talk[k].end
    BY <2>3, <2>6 DEF SameStamps
  <2>10. WordsOf(FromFile) = Spoken
    BY <2>3, <2>8, <2>9 DEF HoldFirst, Spoken
  <2>11. FromFile \in Seq(Grouping) /\ Len(FromFile) > 0
         /\ FromFile[1].start = talk[1].start /\ FromFile[Len(FromFile)].end = talk[L].end
    BY <2>8, <2>9 DEF HoldFirst
  <2> QED
    BY <2>3, <2>10, <2>11 DEF WordsOnce, Last
<1> QED
  BY <1>1, RecorderKeeps, PTL
-----------------------------------------------------------------------------
(* The phrases of a live recording (PcmChunker, Stt): the segments of a    *)
(* chunk are what its window hears of the segments of the whole.           *)

(* Segments as ranges of stamps: the i-th segment is made of the stamps    *)
(* after the E[i - 1]-th up to the E[i]-th.                                *)
Gap(s, n) == s[n + 1].start - s[n].end

(* Nothing that is written without a space follows a pause.                *)
Unpaused(s) == \A n \in DOMAIN s \ {1} : s[n].glue => s[n].start - s[n - 1].end < GROUP_GAP_SEC

(* The segment of the stamps after the u-th up to the v-th, a range without*)
(* a pause, and what ends one.                                             *)
Piece(s, u, v) == [start |-> s[u + 1].start, end |-> s[v].end,
                   words |-> [k \in 1 .. v - u |-> s[u + k].word]]

Run(s, u, v) == u < v /\ \A m \in u + 1 .. v - 1 : Gap(s, m) < GROUP_GAP_SEC

Break(s, u, v) ==
    Gap(s, v) >= GROUP_GAP_SEC \/ s[v + 1].end - s[u + 1].start > GROUP_MAX_SEC

Ranges(G, s, n, E, M) ==
    /\ M \in Nat /\ G \in Seq(Grouping) /\ Len(G) = M
    /\ E \in [0 .. M -> 0 .. n] /\ E[0] = 0 /\ E[M] = n
    /\ \A i \in 1 .. M : Run(s, E[i - 1], E[i]) /\ G[i] = Piece(s, E[i - 1], E[i])
    /\ \A i \in 1 .. M - 1 : Break(s, E[i - 1], E[i])

(* A segment of one stamp, and of one stamp more.                          *)
LEMMA PieceOfOne ==
    ASSUME NEW s \in Seq(HeardWord), NEW n \in Nat, n < Len(s)
    PROVE  Segment(s[n + 1]) = Piece(s, n, n + 1) /\ Run(s, n, n + 1)
<1>1. s[n + 1] \in HeardWord
  OBVIOUS
<1>2. s[n + 1].word \in Nat
  BY <1>1 DEF HeardWord
<1>3. [k \in 1 .. (n + 1) - n |-> s[n + k].word] = <<s[n + 1].word>>
  <2>1. PICK v \in Nat : v = s[n + 1].word
    BY <1>2
  <2>2. (n + 1) - n = 1 /\ \A k \in 1 .. 1 : k = 1
    OBVIOUS
  <2>3. [k \in 1 .. (n + 1) - n |-> s[n + k].word] = [k \in 1 .. 1 |-> v]
    BY <2>1, <2>2
  <2>4. [k \in 1 .. 1 |-> v] = <<v>>
    OBVIOUS
  <2> QED
    BY <2>1, <2>3, <2>4
<1>4. Run(s, n, n + 1)
  BY DEF Run
<1> QED
  BY <1>3, <1>4 DEF Segment, Piece

LEMMA PieceGrows ==
    ASSUME NEW s \in Seq(HeardWord), Timed(s), NEW u \in Nat, NEW n \in Nat, u < n, n < Len(s),
           NEW g, g = Piece(s, u, n)
    PROVE  [start |-> g.start, end |-> LargerOf(g.end, s[n + 1].end),
            words |-> Append(g.words, s[n + 1].word)] = Piece(s, u, n + 1)
<1>1. \A k \in 1 .. Len(s) : s[k] \in HeardWord
  OBVIOUS
<1>2. \A k \in 1 .. Len(s) : s[k].word \in Nat /\ s[k].start \in Int /\ s[k].end \in Int
  BY <1>1 DEF HeardWord
<1>3. s[n].end <= s[n + 1].end
  <2>1. n \in DOMAIN s /\ n + 1 \in DOMAIN s /\ n < n + 1
    OBVIOUS
  <2>2. s[n].end <= s[n + 1].start /\ s[n + 1].start < s[n + 1].end
    BY <2>1 DEF Timed
  <2> QED
    BY <1>2, <2>2
<1>4. LargerOf(s[n].end, s[n + 1].end) = s[n + 1].end
  <2>1. s[n].end \in Int /\ s[n + 1].end \in Int
    BY <1>2
  <2> QED
    BY <1>3, <2>1 DEF LargerOf
<1> DEFINE ws == [k \in 1 .. n - u |-> s[u + k].word]
           more == [k \in 1 .. (n + 1) - u |-> s[u + k].word]
<1>5. Append(ws, s[n + 1].word) = more
  <2>1. PICK m \in Nat : m = n - u
    OBVIOUS
  <2>2. (n + 1) - u = m + 1 /\ u + (m + 1) = n + 1
    BY <2>1
  <2>3. \A k \in 1 .. m + 1 : u + k \in 1 .. Len(s)
    BY <2>1
  <2>4. PICK f : f = [k \in 1 .. m + 1 |-> s[u + k].word]
    OBVIOUS
  <2>5. \A k \in 1 .. m + 1 : f[k] = s[u + k].word /\ f[k] \in Nat
    BY <1>2, <2>3, <2>4
  <2>6. ws = [k \in 1 .. m |-> f[k]]
    BY <2>1, <2>5
  <2>7. more = f
    BY <2>2, <2>4
  <2>8. f[m + 1] = s[n + 1].word
    BY <2>2, <2>5
  <2> HIDE DEF ws, more
  <2>9. ws \in Seq(Nat) /\ Len(ws) = m
    BY <2>5, <2>6
  <2>10. f = [k \in 1 .. m + 1 |-> f[k]]
    BY <2>4
  <2>11. Append(ws, f[m + 1]) = [k \in 1 .. m + 1 |-> f[k]]
    BY <2>5, <2>6, <2>9
  <2> QED
    BY <2>7, <2>8, <2>10, <2>11
<1>6. g.start = s[u + 1].start /\ g.end = s[n].end /\ g.words = ws
  BY DEF Piece
<1>7. Piece(s, u, n + 1) = [start |-> s[u + 1].start, end |-> s[n + 1].end, words |-> more]
  BY DEF Piece
<1> HIDE DEF ws, more
<1> QED
  BY <1>4, <1>5, <1>6, <1>7

(* One stamp more opens a segment or goes on with the last one.            *)
LEMMA RangesOpen ==
    ASSUME NEW s \in Seq(HeardWord), NEW n \in Nat, n < Len(s),
           NEW G, NEW E, NEW M, Ranges(G, s, n, E, M), Opens(G, s[n + 1])
    PROVE  \E E2, M2 : Ranges(Grouped(G, s[n + 1]), s, n + 1, E2, M2)
<1>1. /\ M \in Nat /\ G \in Seq(Grouping) /\ Len(G) = M
      /\ E \in [0 .. M -> 0 .. n] /\ E[0] = 0 /\ E[M] = n
      /\ \A i \in 1 .. M : Run(s, E[i - 1], E[i]) /\ G[i] = Piece(s, E[i - 1], E[i])
      /\ \A i \in 1 .. M - 1 : Break(s, E[i - 1], E[i])
  BY DEF Ranges
<1> PICK x \in HeardWord : x = s[n + 1]
  OBVIOUS
<1> DEFINE r  == Grouped(G, x)
           E2 == [i \in 0 .. M + 1 |-> IF i <= M THEN E[i] ELSE n + 1]
<1>2. r = Append(G, Segment(x)) /\ Segment(x) \in Grouping /\ r \in Seq(Grouping)
  BY <1>1, Opening
<1>3. /\ Len(r) = M + 1 /\ r[M + 1] = Segment(x)
      /\ \A i \in 1 .. M : r[i] = G[i]
  BY <1>1, <1>2
<1> HIDE DEF r
<1>4. /\ E2 \in [0 .. M + 1 -> 0 .. n + 1] /\ E2[M + 1] = n + 1
      /\ \A i \in 0 .. M : E2[i] = E[i]
  <2>1. \A i \in 0 .. M : E[i] \in 0 .. n + 1
    <3>1. \A i \in 0 .. M : E[i] \in 0 .. n
      BY <1>1
    <3> QED
      BY <3>1
  <2> QED
    BY <1>1, <2>1
<1> HIDE DEF E2
<1>5. ASSUME NEW i \in 1 .. M + 1
      PROVE  Run(s, E2[i - 1], E2[i]) /\ r[i] = Piece(s, E2[i - 1], E2[i])
  <2>1. CASE i \in 1 .. M
    <3>1. i \in 0 .. M /\ i - 1 \in 0 .. M
      BY <1>1, <2>1
    <3> QED
      BY <1>1, <1>3, <1>4, <2>1, <3>1
  <2>2. CASE i = M + 1
    <3>1. i - 1 = M /\ M \in 0 .. M
      BY <1>1, <2>2
    <3>2. E2[i - 1] = n /\ E2[i] = n + 1
      BY <1>1, <1>4, <2>2, <3>1
    <3> QED
      BY <1>3, <2>2, <3>2, PieceOfOne
  <2> QED
    BY <1>1, <2>1, <2>2
<1>6. ASSUME NEW i \in 1 .. (M + 1) - 1 PROVE Break(s, E2[i - 1], E2[i])
  <2>0. i \in 0 .. M /\ i - 1 \in 0 .. M /\ i \in 1 .. M
    BY <1>1
  <2>1. E2[i - 1] = E[i - 1] /\ E2[i] = E[i]
    BY <1>4, <2>0
  <2>2. CASE i # M
    <3>1. i \in 1 .. M - 1
      BY <1>1, <2>0, <2>2
    <3> QED
      BY <1>1, <2>1, <3>1
  <2>3. CASE i = M
    <3>1. G # <<>> /\ Last(G) = G[M]
      BY <1>1, <2>0, <2>3 DEF Last
    <3>2. G[M] = Piece(s, E[M - 1], n)
      BY <1>1, <2>0, <2>3
    <3>3. G[M].end = s[n].end /\ G[M].start = s[E[M - 1] + 1].start
      BY <3>2 DEF Piece
    <3>4. x.start - s[n].end >= GROUP_GAP_SEC \/ x.end - s[E[M - 1] + 1].start > GROUP_MAX_SEC
      BY <3>1, <3>3 DEF Opens
    <3> QED
      BY <1>1, <2>1, <2>3, <3>4 DEF Break, Gap
  <2> QED
    BY <2>2, <2>3
<1>7. E2[0] = 0 /\ M + 1 \in Nat
  BY <1>1, <1>4
<1>8. Ranges(r, s, n + 1, E2, M + 1)
  BY <1>2, <1>3, <1>4, <1>5, <1>6, <1>7 DEF Ranges
<1> QED
  BY <1>8 DEF r

LEMMA RangesGoOn ==
    ASSUME NEW s \in Seq(HeardWord), Timed(s), Unpaused(s), NEW n \in Nat, n < Len(s),
           NEW G, NEW E, NEW M, Ranges(G, s, n, E, M), ~Opens(G, s[n + 1])
    PROVE  \E E2, M2 : Ranges(Grouped(G, s[n + 1]), s, n + 1, E2, M2)
<1>1. /\ M \in Nat /\ G \in Seq(Grouping) /\ Len(G) = M
      /\ E \in [0 .. M -> 0 .. n] /\ E[0] = 0 /\ E[M] = n
      /\ \A i \in 1 .. M : Run(s, E[i - 1], E[i]) /\ G[i] = Piece(s, E[i - 1], E[i])
      /\ \A i \in 1 .. M - 1 : Break(s, E[i - 1], E[i])
  BY DEF Ranges
<1> PICK x \in HeardWord : x = s[n + 1]
  OBVIOUS
<1> DEFINE cur == [start |-> G[M].start, end |-> LargerOf(G[M].end, x.end),
                   words |-> Append(G[M].words, x.word)]
           r  == Grouped(G, x)
           E2 == [i \in 0 .. M |-> IF i = M THEN n + 1 ELSE E[i]]
<1>2. /\ M # 0 /\ r \in Seq(Grouping) /\ Len(r) = M
      /\ \A i \in 1 .. M - 1 : r[i] = G[i]
      /\ r[M] = cur
  BY <1>1, GoingOn
<1> HIDE DEF r, cur
<1>3. M \in 1 .. M /\ G[M] = Piece(s, E[M - 1], n) /\ Run(s, E[M - 1], n)
      /\ E[M - 1] \in Nat /\ M - 1 \in 0 .. M
  BY <1>1, <1>2
<1>4. E[M - 1] < n
  BY <1>3 DEF Run
<1>5. r[M] = Piece(s, E[M - 1], n + 1)
  BY <1>2, <1>3, <1>4, PieceGrows DEF cur
<1>6. Gap(s, n) < GROUP_GAP_SEC
  <2>1. G # <<>> /\ Last(G) = G[M] /\ G[M].end = s[n].end
    BY <1>1, <1>2, <1>3 DEF Last, Piece
  <2>2. x.glue \/ ~(x.start - s[n].end >= GROUP_GAP_SEC)
    BY <2>1 DEF Opens
  <2>3. n + 1 \in DOMAIN s \ {1} /\ (n + 1) - 1 = n /\ n \in DOMAIN s
    BY <1>3, <1>4
  <2>4. x.glue => x.start - s[n].end < GROUP_GAP_SEC
    BY <2>3 DEF Unpaused
  <2>5. x.start \in Int /\ s[n].end \in Int
    BY <2>3 DEF Timed
  <2> QED
    BY <2>2, <2>4, <2>5 DEF Gap, GROUP_GAP_SEC
<1>7. Run(s, E[M - 1], n + 1)
  <2>1. \A m \in E[M - 1] + 1 .. (n + 1) - 1 : m \in E[M - 1] + 1 .. n - 1 \/ m = n
    BY <1>3
  <2>2. \A m \in E[M - 1] + 1 .. n - 1 : Gap(s, m) < GROUP_GAP_SEC
    BY <1>3 DEF Run
  <2>3. E[M - 1] < n + 1
    BY <1>3, <1>4
  <2> QED
    BY <1>6, <2>1, <2>2, <2>3 DEF Run
<1>8. /\ E2 \in [0 .. M -> 0 .. n + 1] /\ E2[M] = n + 1
      /\ \A i \in 0 .. M - 1 : E2[i] = E[i]
  <2>1. \A i \in 0 .. M : E[i] \in 0 .. n + 1
    <3>1. \A i \in 0 .. M : E[i] \in 0 .. n
      BY <1>1
    <3> QED
      BY <3>1
  <2> QED
    BY <1>1, <2>1
<1> HIDE DEF E2
<1>9. ASSUME NEW i \in 1 .. M
      PROVE  Run(s, E2[i - 1], E2[i]) /\ r[i] = Piece(s, E2[i - 1], E2[i])
  <2>1. CASE i # M
    <3>1. i \in 1 .. M - 1 /\ i \in 0 .. M - 1 /\ i - 1 \in 0 .. M - 1
      BY <1>1, <2>1
    <3> QED
      BY <1>1, <1>2, <1>8, <3>1
  <2>2. CASE i = M
    <3>1. i - 1 \in 0 .. M - 1 /\ E2[i - 1] = E[M - 1] /\ E2[i] = n + 1
      BY <1>1, <1>8, <2>2
    <3> QED
      BY <1>5, <1>7, <2>2, <3>1
  <2> QED
    BY <2>1, <2>2
<1>10. ASSUME NEW i \in 1 .. M - 1 PROVE Break(s, E2[i - 1], E2[i])
  <2>1. i \in 0 .. M - 1 /\ i - 1 \in 0 .. M - 1
    BY <1>1
  <2> QED
    BY <1>1, <1>8, <2>1
<1>11. E2[0] = 0
  BY <1>1, <1>2, <1>8
<1>12. Ranges(r, s, n + 1, E2, M)
  BY <1>1, <1>2, <1>8, <1>9, <1>10, <1>11 DEF Ranges
<1> QED
  BY <1>12 DEF r

(* So the segments of any stamps are ranges of them.                       *)
LEMMA GroupRanges ==
    ASSUME NEW s \in Seq(HeardWord), Timed(s), Unpaused(s)
    PROVE  \E E, M : Ranges(_group_words(s), s, Len(s), E, M)
<1>0. PICK L \in Nat : L = Len(s)
  OBVIOUS
<1>1. PICK f : /\ f[0] = <<>> /\ \A n \in 1 .. L : f[n] = Grouped(f[n - 1], s[n])
               /\ _group_words(s) = f[L]
  BY <1>0, GroupedInSteps
<1> DEFINE S == {n \in 0 .. L : \E E, M : Ranges(f[n], s, n, E, M)}
<1>2. 0 \in S
  <2> DEFINE E == [i \in 0 .. 0 |-> 0]
  <2>1. /\ <<>> \in Seq(Grouping) /\ Len(<<>>) = 0 /\ E \in [0 .. 0 -> 0 .. 0] /\ E[0] = 0
        /\ 1 .. 0 = {} /\ 1 .. 0 - 1 = {} /\ 0 \in Nat
    OBVIOUS
  <2> HIDE DEF E
  <2>2. Ranges(<<>>, s, 0, E, 0)
    BY <2>1 DEF Ranges
  <2>3. Ranges(f[0], s, 0, E, 0)
    BY <1>1, <2>2
  <2>4. 0 \in 0 .. L
    OBVIOUS
  <2> QED
    BY <2>3, <2>4
<1>3. ASSUME NEW n \in 0 .. L - 1, n \in S PROVE n + 1 \in S
  <2>1. n \in Nat /\ n < Len(s) /\ n + 1 \in 1 .. L /\ n + 1 \in 0 .. L /\ (n + 1) - 1 = n
    BY <1>0
  <2>2. PICK E, M : Ranges(f[n], s, n, E, M)
    BY <1>3
  <2>3. PICK g : g = f[n]
    OBVIOUS
  <2>4. \E E2, M2 : Ranges(Grouped(g, s[n + 1]), s, n + 1, E2, M2)
    BY <2>1, <2>2, <2>3, RangesOpen, RangesGoOn
  <2>5. f[n + 1] = Grouped(g, s[n + 1])
    BY <1>1, <2>1, <2>3
  <2> QED
    BY <2>1, <2>4, <2>5
<1> HIDE DEF S
<1>4. 0 .. L \subseteq S
  BY <1>2, <1>3, UpTo
<1>5. L \in S
  BY <1>4
<1> QED
  BY <1>0, <1>1, <1>5 DEF S

(* Borders that rise one by one.                                           *)
Rising(E, M, L) ==
    /\ M \in Nat /\ L \in Nat /\ E \in [0 .. M -> 0 .. L] /\ E[0] = 0 /\ E[M] = L
    /\ \A i \in 1 .. M : E[i - 1] < E[i]

(* They rise from any to any later one.                                    *)
LEMMA RisingUp ==
    ASSUME NEW E, NEW M, NEW L, Rising(E, M, L)
    PROVE  \A i, j \in 0 .. M : i <= j => E[i] <= E[j]
<1>0. /\ M \in Nat /\ L \in Nat /\ \A i \in 0 .. M : E[i] \in Int
      /\ \A i \in 1 .. M : E[i - 1] < E[i]
  BY DEF Rising
<1> DEFINE S == {j \in 0 .. M : \A i \in 0 .. j : E[i] <= E[j]}
<1>1. 0 \in S
  <2>1. 0 \in 0 .. M /\ \A i \in 0 .. 0 : i = 0
    BY <1>0
  <2> QED
    BY <1>0, <2>1
<1>2. ASSUME NEW j \in 0 .. M - 1, j \in S PROVE j + 1 \in S
  <2>1. j \in 0 .. M /\ j + 1 \in 0 .. M /\ j + 1 \in 1 .. M /\ (j + 1) - 1 = j
    BY <1>0
  <2>2. E[j] < E[j + 1] /\ E[j] \in Int /\ E[j + 1] \in Int
    BY <1>0, <2>1
  <2>3. ASSUME NEW i \in 0 .. j + 1 PROVE E[i] <= E[j + 1]
    <3>1. i = j + 1 \/ (i \in 0 .. j /\ i \in 0 .. M)
      BY <1>0
    <3>2. i \in 0 .. j => E[i] <= E[j] /\ E[i] \in Int
      BY <1>0, <1>2, <3>1
    <3> QED
      BY <2>2, <3>1, <3>2
  <2> QED
    BY <2>1, <2>3
<1> HIDE DEF S
<1>3. 0 .. M \subseteq S
  BY <1>0, <1>1, <1>2, UpTo
<1>4. ASSUME NEW i \in 0 .. M, NEW j \in 0 .. M, i <= j PROVE E[i] <= E[j]
  <2>1. i \in 0 .. j /\ j \in S
    BY <1>0, <1>3, <1>4
  <2> QED
    BY <2>1 DEF S
<1> QED
  BY <1>4

(* Every number lies between two of them.                                  *)
LEMMA RisingOver ==
    ASSUME NEW E, NEW M, NEW L, Rising(E, M, L), NEW n \in 1 .. L
    PROVE  \E i \in 1 .. M : E[i - 1] < n /\ n <= E[i]
<1>0. /\ M \in Nat /\ L \in Nat /\ E[0] = 0 /\ E[M] = L
      /\ \A i \in 0 .. M : E[i] \in Int
  BY DEF Rising
<1> DEFINE T == {i \in 0 .. M : n <= E[i]}
<1>1. M \in T /\ T \subseteq Nat
  BY <1>0
<1>2. PICK i \in T : \A j \in T : i <= j
  <2> HIDE DEF T
  <2> QED
    BY <1>1, LeastMember
<1>3. i \in 0 .. M /\ n <= E[i] /\ i # 0
  BY <1>0
<1>4. i - 1 \in 0 .. M /\ i \in 1 .. M /\ i - 1 < i
  BY <1>0, <1>3
<1>5. ~(n <= E[i - 1])
  BY <1>2, <1>4, <1>0
<1>6. E[i - 1] < n
  BY <1>0, <1>4, <1>5
<1> QED
  BY <1>3, <1>4, <1>6

(* Two ways to divide the same numbers at the same borders are the same.   *)
Divides(E, M, L, Is) ==
    /\ Rising(E, M, L)
    /\ \A i \in 1 .. M - 1 : E[i] \in Is
    /\ \A i \in 1 .. M : \A n \in E[i - 1] + 1 .. E[i] - 1 : n \notin Is

(* Neither passes a border of the other.                                   *)
LEMMA NextBorder ==
    ASSUME NEW E, NEW M, NEW F, NEW N, NEW L, NEW Is, Divides(E, M, L, Is), Divides(F, N, L, Is),
           NEW j \in Nat, j < M, j <= N, E[j] = F[j]
    PROVE  j < N /\ F[j + 1] >= E[j + 1]
<1>e. /\ M \in Nat /\ L \in Nat /\ E[M] = L /\ \A i \in 0 .. M : E[i] \in 0 .. L
      /\ \A i \in 1 .. M : E[i - 1] < E[i]
      /\ \A i \in 1 .. M : \A n \in E[i - 1] + 1 .. E[i] - 1 : n \notin Is
  BY DEF Divides, Rising
<1>f. /\ N \in Nat /\ F[N] = L /\ \A i \in 0 .. N : F[i] \in 0 .. L
      /\ \A i \in 1 .. N : F[i - 1] < F[i]
      /\ \A i \in 1 .. N - 1 : F[i] \in Is
  BY DEF Divides, Rising
<1>1. j + 1 \in 1 .. M /\ j + 1 \in 0 .. M /\ (j + 1) - 1 = j /\ j \in 0 .. M
  BY <1>e
<1>2. E[j] < E[j + 1] /\ E[j + 1] \in 0 .. L /\ E[j] \in 0 .. L
  BY <1>1, <1>e
<1>3. E[j] < L
  BY <1>2, <1>e
<1>4. j < N
  BY <1>3, <1>f
<1>5. j + 1 \in 1 .. N /\ j + 1 \in 0 .. N
  BY <1>4, <1>f
<1>6. F[j] < F[j + 1] /\ F[j + 1] \in 0 .. L
  BY <1>1, <1>5, <1>f
<1>7. ASSUME F[j + 1] < E[j + 1] PROVE FALSE
  <2>1. F[j + 1] \in E[(j + 1) - 1] + 1 .. E[j + 1] - 1
    BY <1>1, <1>2, <1>6, <1>7
  <2>2. F[j + 1] \notin Is
    BY <1>1, <1>e, <2>1
  <2>3. j + 1 # N
    BY <1>2, <1>7, <1>f
  <2>4. j + 1 \in 1 .. N - 1
    BY <1>5, <1>f, <2>3
  <2> QED
    BY <1>f, <2>2, <2>4
<1>8. F[j + 1] >= E[j + 1]
  BY <1>2, <1>6, <1>7
<1> QED
  BY <1>4, <1>8

(* So they have the same borders.                                          *)
LEMMA SameBorders ==
    ASSUME NEW E, NEW M, NEW F, NEW N, NEW L, NEW Is, Divides(E, M, L, Is), Divides(F, N, L, Is)
    PROVE  M = N /\ \A i \in 0 .. M : E[i] = F[i]
<1>0. /\ M \in Nat /\ N \in Nat /\ L \in Nat /\ E[0] = 0 /\ F[0] = 0 /\ E[M] = L /\ F[N] = L
      /\ \A i \in 0 .. M : E[i] \in Int
      /\ \A i \in 0 .. N : F[i] \in Int
  BY DEF Divides, Rising
<1> DEFINE S == {j \in 0 .. M : j <= N /\ E[j] = F[j]}
<1>1. 0 \in S
  BY <1>0
<1>2. ASSUME NEW j \in 0 .. M - 1, j \in S PROVE j + 1 \in S
  <2>1. j \in Nat /\ j < M /\ j <= N /\ E[j] = F[j]
    BY <1>0, <1>2
  <2>2. j < N /\ F[j + 1] >= E[j + 1]
    BY <2>1, NextBorder
  <2>3. E[j + 1] >= F[j + 1]
    <3>1. F[j] = E[j] /\ j <= M /\ j < N
      BY <2>1, <2>2, <1>0
    <3> QED
      BY <2>1, <3>1, NextBorder, Zenon
  <2>4. j + 1 \in 0 .. M /\ j + 1 \in 0 .. N
    BY <1>0, <2>1, <2>2
  <2>5. E[j + 1] \in Int /\ F[j + 1] \in Int
    BY <1>0, <2>4
  <2> QED
    BY <2>2, <2>3, <2>4, <2>5
<1> HIDE DEF S
<1>3. 0 .. M \subseteq S
  BY <1>0, <1>1, <1>2, UpTo
<1>4. M <= N /\ \A i \in 0 .. M : E[i] = F[i]
  BY <1>0, <1>3 DEF S
<1>5. ~(M < N)
  <2> SUFFICES ASSUME M < N PROVE FALSE
    OBVIOUS
  <2>1. M \in 0 .. M /\ M + 1 \in 1 .. N /\ (M + 1) - 1 = M /\ M + 1 \in 0 .. N
    BY <1>0
  <2>2. F[M] = L
    BY <1>0, <1>4, <2>1
  <2>3. F[M] < F[M + 1] /\ F[M + 1] \in 0 .. L
    BY <2>1 DEF Divides, Rising
  <2> QED
    BY <1>0, <2>2, <2>3
<1> QED
  BY <1>0, <1>4, <1>5

(* A window in its own time.                                               *)
Length(w) == [from |-> 0, to |-> w.to - w.from]

(* What a window hears is in time, and has the pauses of what was said.    *)
LEMMA WindowIs ==
    ASSUME NEW t \in Seq(HeardWord), Timed(t), NEW w, w.from \in Int, w.to \in Int, w.from < w.to,
           NEW a \in 0 .. Len(t), NEW b \in 0 .. Len(t), NEW x, HeardAs(x, t, w, a, b)
    PROVE  /\ Timed(x) /\ Inside(x, Length(w))
           /\ \A k \in 1 .. (b - a) - 1 : Gap(x, k) = Gap(t, a + k)
<1>1. /\ a <= b /\ Heard(t, w) = a + 1 .. b
      /\ x \in Seq(HeardWord) /\ Len(x) = b - a
      /\ \A k \in 1 .. b - a : /\ x[k].start = LargerOf(t[a + k].start, w.from) - w.from
                               /\ x[k].end = LeastOf(t[a + k].end, w.to) - w.from
  BY DEF HeardAs
<1>2. DOMAIN x = 1 .. b - a
  BY <1>1
<1>3. ASSUME NEW n \in a + 1 .. b
      PROVE  /\ n \in 1 .. Len(t) /\ t[n].start \in Int /\ t[n].end \in Int
             /\ t[n].start < t[n].end /\ t[n].start < w.to /\ t[n].end > w.from
  <2>1. n \in Heard(t, w)
    BY <1>1
  <2>2. n \in DOMAIN t /\ t[n].start < w.to /\ t[n].end > w.from
    BY <2>1 DEF Heard
  <2> QED
    BY <2>2 DEF Timed
<1>4. ASSUME NEW k \in 1 .. b - a
      PROVE  /\ x[k].start \in Int /\ x[k].end \in Int /\ x[k].start < x[k].end
             /\ 0 <= x[k].start /\ x[k].end <= w.to - w.from
             /\ a + k \in a + 1 .. b
  <2>1. a + k \in a + 1 .. b
    OBVIOUS
  <2>2. PICK s, e, f, g \in Int : s = t[a + k].start /\ e = t[a + k].end /\ f = w.from /\ g = w.to
    BY <1>3, <2>1
  <2>3. s < e /\ f < g /\ s < g /\ e > f
    BY <1>3, <2>1, <2>2
  <2> DEFINE u == LargerOf(s, f) - f
             v == LeastOf(e, g) - f
  <2>4. u \in Int /\ v \in Int /\ u < v /\ 0 <= u /\ v <= g - f
    BY <2>3 DEF LargerOf, LeastOf
  <2>5. x[k].start = u /\ x[k].end = v
    BY <1>1, <2>2
  <2> HIDE DEF u, v
  <2> QED
    BY <2>1, <2>2, <2>4, <2>5
<1>5. ASSUME NEW k \in 1 .. b - a, NEW j \in 1 .. b - a, k < j
      PROVE  /\ x[k].end = t[a + k].end - w.from /\ x[j].start = t[a + j].start - w.from
             /\ t[a + k].end <= t[a + j].start
  <2>1. a + k \in a + 1 .. b /\ a + j \in a + 1 .. b /\ a + k < a + j
    BY <1>5
  <2>2. /\ t[a + k].start \in Int /\ t[a + k].end \in Int
        /\ t[a + k].start < t[a + k].end /\ t[a + k].end > w.from
        /\ t[a + j].start \in Int /\ t[a + j].end \in Int
        /\ t[a + j].start < t[a + j].end /\ t[a + j].start < w.to
    BY <1>3, <2>1
  <2>3. a + k \in DOMAIN t /\ a + j \in DOMAIN t
    BY <1>3, <2>1
  <2>4. t[a + k].end <= t[a + j].start
    BY <2>1, <2>3 DEF Timed
  <2>5. x[k].end = LeastOf(t[a + k].end, w.to) - w.from
        /\ x[j].start = LargerOf(t[a + j].start, w.from) - w.from
    BY <1>1
  <2>6. LeastOf(t[a + k].end, w.to) = t[a + k].end
    BY <2>2, <2>4 DEF LeastOf
  <2>7. LargerOf(t[a + j].start, w.from) = t[a + j].start
    BY <2>2, <2>4 DEF LargerOf
  <2> QED
    BY <2>4, <2>5, <2>6, <2>7
<1>6. ASSUME NEW k \in 1 .. b - a, NEW j \in 1 .. b - a, k < j
      PROVE  x[k].end <= x[j].start
  <2>1. a + k \in a + 1 .. b /\ a + j \in a + 1 .. b
    OBVIOUS
  <2>2. t[a + k].end \in Int /\ t[a + j].start \in Int
    BY <1>3, <2>1
  <2>3. x[k].end = t[a + k].end - w.from /\ x[j].start = t[a + j].start - w.from
        /\ t[a + k].end <= t[a + j].start
    BY <1>5, <1>6
  <2> QED
    BY <2>2, <2>3
<1>7. Timed(x)
  BY <1>2, <1>4, <1>6 DEF Timed
<1>8. Inside(x, Length(w))
  BY <1>2, <1>4 DEF Inside, Length
<1>9. ASSUME NEW k \in 1 .. (b - a) - 1 PROVE Gap(x, k) = Gap(t, a + k)
  <2>1. k \in 1 .. b - a /\ k + 1 \in 1 .. b - a /\ k < k + 1 /\ a + (k + 1) = (a + k) + 1
    OBVIOUS
  <2>2. x[k].end = t[a + k].end - w.from /\ x[k + 1].start = t[(a + k) + 1].start - w.from
    BY <1>5, <2>1
  <2>3. t[a + k].end \in Int /\ t[(a + k) + 1].start \in Int
    <3>1. a + k \in a + 1 .. b /\ (a + k) + 1 \in a + 1 .. b
      OBVIOUS
    <3> QED
      BY <1>3, <3>1
  <2>4. PICK p, q, f \in Int : /\ p = t[a + k].end /\ q = t[(a + k) + 1].start /\ f = w.from
    BY <2>3
  <2>a. (q - f) - (p - f) = q - p
    OBVIOUS
  <2>5. x[k].end = p - f /\ x[k + 1].start = q - f /\ (q - f) - (p - f) = q - p
    BY <2>2, <2>4, <2>a, Zenon
  <2>6. Gap(x, k) = x[k + 1].start - x[k].end /\ Gap(t, a + k) = t[(a + k) + 1].start - t[a + k].end
    BY DEF Gap
  <2> QED
    BY <2>4, <2>5, <2>6
<1> QED
  BY <1>7, <1>8, <1>9

(* A window that hears everything whole changes nothing.                   *)
LEMMA HeardAsSaid ==
    ASSUME NEW s \in Seq(HeardWord), Timed(s), NEW w, w.from = 0, w.to \in Int, Inside(s, w)
    PROVE  Transcribed(s, w) = s
<1>0. PICK L \in Nat : L = Len(s) /\ DOMAIN s = 1 .. L
  OBVIOUS
<1>1. PICK a, b \in 0 .. L : /\ a <= b /\ Heard(s, w) = a + 1 .. b
                             /\ At(s, Heard(s, w)) = [k \in 1 .. b - a |-> s[a + k]]
  <2>1. w.from \in Int
    OBVIOUS
  <2> QED
    BY <1>0, <2>1, HeardIs
<1>2. \A k \in 1 .. L : /\ s[k].start \in Int /\ s[k].end \in Int /\ s[k].start < s[k].end
                        /\ 0 <= s[k].start /\ s[k].end <= w.to
  BY <1>0 DEF Timed, Inside
<1>3. L # 0 => 1 \in Heard(s, w) /\ L \in Heard(s, w)
  BY <1>0, <1>2 DEF Heard
<1>4. b - a = L /\ \A k \in 1 .. L : a + k = k
  BY <1>1, <1>3
<1>5. At(s, Heard(s, w)) = [k \in 1 .. L |-> s[k]]
  BY <1>1, <1>4
<1> DEFINE inside == At(s, Heard(s, w))
           Moves(x) == [x EXCEPT !.start = LargerOf(@, w.from) - w.from,
                                 !.end   = LeastOf(@, w.to) - w.from]
<1>6. Transcribed(s, w) = [i \in DOMAIN inside |-> Moves(inside[i])]
  BY DEF Transcribed, Heard
<1>7. inside = s
  BY <1>0, <1>5
<1> HIDE DEF inside
<1>8. ASSUME NEW i \in 1 .. L PROVE Moves(s[i]) = s[i]
  <2>1. PICK x \in HeardWord : x = s[i]
    BY <1>0
  <2>2. x.start \in Int /\ x.end \in Int /\ 0 <= x.start /\ x.end <= w.to
    BY <1>2, <2>1
  <2>3. LargerOf(x.start, w.from) - w.from = x.start /\ LeastOf(x.end, w.to) - w.from = x.end
    BY <2>2 DEF LargerOf, LeastOf
  <2>4. Moves(x) = [x EXCEPT !.start = x.start, !.end = x.end]
    BY <2>3
  <2>5. [x EXCEPT !.start = x.start, !.end = x.end] = x
    BY DEF HeardWord
  <2> HIDE DEF Moves
  <2> QED
    BY <2>1, <2>4, <2>5
<1> HIDE DEF Moves
<1>9. [i \in DOMAIN s |-> Moves(s[i])] = [i \in DOMAIN s |-> s[i]]
  BY <1>0, <1>8
<1>10. [i \in DOMAIN s |-> s[i]] = s
  BY <1>0
<1> QED
  BY <1>6, <1>7, <1>9, <1>10

(* Neither do a shift by nothing, the choice of all and the joining of one.*)
LEMMA NotShifted ==
    ASSUME NEW s \in Seq(HeardWord) PROVE Shifted(s, 0) = s
<1>1. ASSUME NEW x \in HeardWord PROVE [x EXCEPT !.start = @ + 0, !.end = @ + 0] = x
  <2>1. x.start + 0 = x.start /\ x.end + 0 = x.end
    BY DEF HeardWord
  <2>2. [x EXCEPT !.start = x.start, !.end = x.end] = x
    BY DEF HeardWord
  <2> QED
    BY <2>1, <2>2
<1>2. \A i \in DOMAIN s : [s[i] EXCEPT !.start = @ + 0, !.end = @ + 0] = s[i]
  <2> TAKE i \in DOMAIN s
  <2>1. s[i] \in HeardWord
    OBVIOUS
  <2> QED
    BY <1>1, <2>1
<1>3. Shifted(s, 0) = [i \in DOMAIN s |-> s[i]]
  BY <1>2 DEF Shifted
<1> QED
  BY <1>3

LEMMA AllAt ==
    ASSUME NEW T, NEW s \in Seq(T) PROVE At(s, DOMAIN s) = s
<1>0. PICK L \in Nat : L = Len(s) /\ DOMAIN s = 1 .. L
  OBVIOUS
<1>1. PICK z \in Nat : z = 0
  OBVIOUS
<1>2. z <= L
  BY <1>0, <1>1
<1>3. At(s, z + 1 .. L) = [k \in 1 .. L - z |-> s[z + k]]
  BY <1>0, <1>2, IntervalOf
<1>4. z + 1 = 1 /\ L - z = L /\ \A k \in 1 .. L : z + k = k
  BY <1>0, <1>1
<1>5. At(s, 1 .. L) = [k \in 1 .. L |-> s[k]]
  BY <1>3, <1>4
<1> QED
  BY <1>0, <1>5

LEMMA FlattenOne ==
    ASSUME NEW T, NEW s \in Seq(T) PROVE FlattenSeq(<<s>>) = s
<1>1. <<>> \in Seq(Seq(T)) /\ Append(<<>>, s) = <<s>> /\ <<>> \o s = s
  OBVIOUS
<1>2. FlattenSeq(Append(<<>>, s)) = FlattenSeq(<<>>) \o s
  BY <1>1, FlattenAppend
<1> QED
  BY <1>1, <1>2, FlattenEmpty

(* A chunk is one window: its segments are those of what it hears.         *)
LEMMA ChunkGroups ==
    ASSUME NEW t \in Seq(HeardWord), Timed(t), NEW w, w.from \in Int, w.to \in Int,
           w.from < w.to, w.to - w.from <= CHUNK_SEC + OVERLAP_SEC
    PROVE  transcribe_recording(t, w) = _group_words(_attach_display_text(Transcribed(t, w)))
<1>1. PICK a, b \in 0 .. Len(t) : HeardAs(Transcribed(t, w), t, w, a, b)
  BY TranscribedIs
<1>2. PICK s : s = Transcribed(t, w)
  OBVIOUS
<1>3. s \in Seq(HeardWord) /\ Timed(s) /\ Inside(s, Length(w))
  <2>1. HeardAs(s, t, w, a, b)
    BY <1>1, <1>2
  <2> QED
    BY <2>1, WindowIs DEF HeardAs
<1>4. Length(w).from = 0 /\ Length(w).to \in Int /\ Length(w).to = w.to - w.from
  BY DEF Length
<1>5. Transcribed(s, Length(w)) = s
  BY <1>3, <1>4, HeardAsSaid
<1>6. PICK d : d = _attach_display_text(s)
  OBVIOUS
<1>7. d \in Seq(HeardWord) /\ AttachedAs(d, s)
  BY <1>3, <1>6, AttachedIs DEF AttachedAs
<1>8. _split_wav(w.to - w.from) = <<Length(w)>>
  BY DEF _split_wav, Length
<1>9. AllKept(s, w.to - w.from) = FlattenSeq([i \in 1 .. 1 |-> _shift_and_trim(d, 0, i = 1, i = 1)])
  <2>1. PICK ws : ws = <<Length(w)>>
    OBVIOUS
  <2>2. DOMAIN ws = 1 .. 1 /\ Len(ws) = 1 /\ ws[1] = Length(w)
    BY <2>1
  <2>3. \A i \in 1 .. 1 : ws[i] = Length(w)
    BY <2>2
  <2>4. \A i \in 1 .. 1 : _shift_and_trim(_attach_display_text(Transcribed(s, ws[i])),
                                   ws[i].from, i = 1, i = Len(ws))
                     = _shift_and_trim(d, 0, i = 1, i = 1)
    BY <1>4, <1>5, <1>6, <2>2, <2>3
  <2>5. AllKept(s, w.to - w.from) =
            FlattenSeq([i \in DOMAIN ws |-> _shift_and_trim(_attach_display_text(Transcribed(s, ws[i])),
                                   ws[i].from, i = 1, i = Len(ws))])
    BY <1>8, <2>1 DEF AllKept
  <2> QED
    BY <2>2, <2>4, <2>5
<1>10. ASSUME NEW i \in 1 .. 1 PROVE _shift_and_trim(d, 0, i = 1, i = 1) = d
  <2>1. Shifted(d, 0) = d
    BY <1>7, NotShifted
  <2>i. i = 1
    OBVIOUS
  <2>w. \A k \in DOMAIN d : Within(d[k], 0 + OVERLAP_SEC \div 2,
                                 0 + CHUNK_SEC + OVERLAP_SEC \div 2, i = 1, i = 1)
    BY <2>i DEF Within
  <2>2. {k \in DOMAIN d : Within(d[k], 0 + OVERLAP_SEC \div 2,
                                0 + CHUNK_SEC + OVERLAP_SEC \div 2, i = 1, i = 1)}
          = DOMAIN d
    BY <2>w
  <2>3. At(d, DOMAIN d) = d
    BY <1>7, AllAt
  <2> QED
    BY <2>1, <2>2, <2>3 DEF _shift_and_trim, Belonging
<1>11. AllKept(s, w.to - w.from) = d
  <2>1. [i \in 1 .. 1 |-> _shift_and_trim(d, 0, i = 1, i = 1)] = <<d>>
    BY <1>10
  <2> QED
    BY <1>7, <1>9, <2>1, FlattenOne
<1>12. InTime(d) = d
  <2>1. /\ DOMAIN d = 1 .. Len(s) /\ DOMAIN s = 1 .. Len(s)
        /\ \A k \in 1 .. Len(s) : d[k].start = s[k].start /\ d[k].end = s[k].end
    BY <1>7 DEF AttachedAs
  <2>2. \A i \in DOMAIN d : d[i].start \in Int /\ d[i].end \in Int /\ d[i].start < d[i].end
    BY <1>3, <2>1 DEF Timed
  <2>3. \A i, j \in DOMAIN d : i < j => d[i].end <= d[j].start
    BY <1>3, <2>1 DEF Timed
  <2>4. \A i, j \in DOMAIN d : i < j => d[i].start < d[j].start
    BY <2>2, <2>3
  <2> QED
    BY <1>7, <2>2, <2>4, SortedStays
<1>13. transcribe_recording(t, w) = _group_words(InTime(AllKept(s, w.to - w.from)))
  BY <1>2 DEF transcribe_recording, AllKept
<1> QED
  BY <1>2, <1>6, <1>11, <1>12, <1>13

(* Of two stamps, what the later one is.                                   *)
LEMMA Later ==
    ASSUME NEW t \in Seq(HeardWord), Timed(t), NEW n \in 1 .. Len(t), NEW m \in 1 .. Len(t), n <= m
    PROVE  /\ t[n].start \in Int /\ t[n].end \in Int /\ t[m].start \in Int /\ t[m].end \in Int
           /\ t[n].start < t[n].end /\ t[m].start < t[m].end
           /\ t[n].start <= t[m].start /\ t[n].end <= t[m].end
           /\ n < m => t[n].end <= t[m].start
<1>1. n \in DOMAIN t /\ m \in DOMAIN t
  OBVIOUS
<1>2. /\ t[n].start \in Int /\ t[n].end \in Int /\ t[m].start \in Int /\ t[m].end \in Int
      /\ t[n].start < t[n].end /\ t[m].start < t[m].end
  BY <1>1 DEF Timed
<1>3. n < m => t[n].end <= t[m].start
  BY <1>1 DEF Timed
<1>4. n = m \/ n < m
  OBVIOUS
<1> QED
  BY <1>2, <1>3, <1>4

(* Where what was said pauses.                                             *)
Pauses(t) == {n \in 1 .. Len(t) - 1 : Gap(t, n) >= GROUP_GAP_SEC}

(* The phrases of what was said, each from one pause to the next.          *)
Phrasing(P, t, E, M) ==
    /\ t \in Seq(HeardWord) /\ Timed(t) /\ Ranges(P, t, Len(t), E, M)
    /\ Divides(E, M, Len(t), Pauses(t))
    /\ \A i \in 1 .. M : t[E[i]].end - t[E[i - 1] + 1].start <= OVERLAP_SEC

(* The borders of segments rise.                                           *)
LEMMA RangesRise ==
    ASSUME NEW s \in Seq(HeardWord), NEW G, NEW E, NEW M, Ranges(G, s, Len(s), E, M)
    PROVE  /\ Rising(E, M, Len(s)) /\ M \in Nat
           /\ \A i \in 1 .. M : /\ E[i - 1] \in Nat /\ E[i] \in 1 .. Len(s) /\ E[i - 1] < E[i]
                                /\ E[i - 1] + 1 \in 1 .. Len(s)
<1>0. /\ M \in Nat /\ E \in [0 .. M -> 0 .. Len(s)] /\ E[0] = 0 /\ E[M] = Len(s)
      /\ \A i \in 1 .. M : E[i - 1] < E[i] /\ Len(s) \in Nat
  BY DEF Ranges, Run
<1>1. Rising(E, M, Len(s))
  BY <1>0 DEF Rising
<1>2. ASSUME NEW i \in 1 .. M
      PROVE  /\ E[i - 1] \in Nat /\ E[i] \in 1 .. Len(s) /\ E[i - 1] < E[i]
             /\ E[i - 1] + 1 \in 1 .. Len(s)
  <2>1. i \in 0 .. M /\ i - 1 \in 0 .. M
    BY <1>0
  <2>2. E[i] \in 0 .. Len(s) /\ E[i - 1] \in 0 .. Len(s) /\ E[i - 1] < E[i]
    BY <1>0, <2>1
  <2> QED
    BY <2>2
<1> QED
  BY <1>0, <1>1, <1>2

(* No phrase is so long that it would be broken without a pause.           *)
LEMMA PhrasesAre ==
    ASSUME NEW t \in Seq(HeardWord), Timed(t), Short(t), Unpaused(t),
           NEW P, P = _group_words(t), \A i \in DOMAIN P : P[i].end - P[i].start <= OVERLAP_SEC
    PROVE  \E E, M : Phrasing(P, t, E, M)
<1>1. PICK E, M : Ranges(P, t, Len(t), E, M)
  BY GroupRanges
<1>2. /\ M \in Nat /\ DOMAIN P = 1 .. M
      /\ \A i \in 1 .. M : Run(t, E[i - 1], E[i]) /\ P[i] = Piece(t, E[i - 1], E[i])
      /\ \A i \in 1 .. M - 1 : Break(t, E[i - 1], E[i])
      /\ E[M] = Len(t)
  <2>1. M \in Nat /\ P \in Seq(Grouping) /\ Len(P) = M
    BY <1>1 DEF Ranges
  <2> QED
    BY <1>1, <2>1 DEF Ranges
<1>3. /\ Rising(E, M, Len(t))
      /\ \A i \in 1 .. M : /\ E[i - 1] \in Nat /\ E[i] \in 1 .. Len(t) /\ E[i - 1] < E[i]
                           /\ E[i - 1] + 1 \in 1 .. Len(t)
  BY <1>1, RangesRise
<1>4. ASSUME NEW i \in 1 .. M PROVE t[E[i]].end - t[E[i - 1] + 1].start <= OVERLAP_SEC
  <2>1. P[i].start = t[E[i - 1] + 1].start /\ P[i].end = t[E[i]].end
    BY <1>2 DEF Piece
  <2>2. P[i].end - P[i].start <= OVERLAP_SEC
    BY <1>2
  <2> QED
    BY <2>1, <2>2
<1>5. ASSUME NEW i \in 1 .. M - 1 PROVE E[i] \in Pauses(t)
  <2>1. i \in 1 .. M /\ i + 1 \in 1 .. M /\ (i + 1) - 1 = i
    BY <1>2
  <2>2. PICK u, v \in Nat : u = E[i - 1] + 1 /\ v = E[i] /\ u <= v /\ v + 1 \in 1 .. Len(t)
                            /\ u \in 1 .. Len(t) /\ v \in 1 .. Len(t)
    <3>1. E[i] + 1 \in 1 .. Len(t)
      BY <1>3, <2>1
    <3> QED
      BY <1>3, <2>1, <3>1
  <2>3. t[v].end - t[u].start <= 8
    BY <1>4, <2>1, <2>2 DEF OVERLAP_SEC
  <2>4. t[v + 1].end - t[v + 1].start <= 8
    <3>1. v + 1 \in DOMAIN t
      BY <2>2
    <3> QED
      BY <3>1 DEF Short, OVERLAP_SEC
  <2>5. /\ t[u].start \in Int /\ t[v].end \in Int /\ t[v + 1].start \in Int /\ t[v + 1].end \in Int
    BY <2>2, Later
  <2>6. Gap(t, v) >= 1 \/ t[v + 1].end - t[u].start > 30
    <3>1. Break(t, E[i - 1], E[i])
      BY <1>2
    <3> QED
      BY <2>2, <3>1 DEF Break, GROUP_GAP_SEC, GROUP_MAX_SEC
  <2>7. Gap(t, v) = t[v + 1].start - t[v].end
    BY DEF Gap
  <2>8. Gap(t, v) >= 1
    <3>1. PICK p, q, r, z \in Int : /\ p = t[u].start /\ q = t[v].end
                                  /\ r = t[v + 1].start /\ z = t[v + 1].end
      BY <2>5
    <3>2. q - p <= 8 /\ z - r <= 8 /\ Gap(t, v) = r - q /\ (Gap(t, v) >= 1 \/ z - p > 30)
      BY <2>3, <2>4, <2>6, <2>7, <3>1
    <3>3. r - q >= 1 \/ z - p > 30
      BY <3>2
    <3>4. r - q >= 1
      BY <3>2, <3>3
    <3> QED
      BY <3>2, <3>4
  <2>9. v \in 1 .. Len(t) - 1
    BY <2>2
  <2> QED
    BY <2>2, <2>8, <2>9 DEF Pauses, GROUP_GAP_SEC
<1>6. ASSUME NEW i \in 1 .. M, NEW n \in E[i - 1] + 1 .. E[i] - 1 PROVE n \notin Pauses(t)
  <2>1. Gap(t, n) < GROUP_GAP_SEC
    BY <1>2 DEF Run
  <2>2. n \in Nat /\ n \in 1 .. Len(t) /\ n + 1 \in 1 .. Len(t)
    BY <1>3
  <2>3. t[n].end \in Int /\ t[n + 1].start \in Int
    BY <2>2, Later
  <2> QED
    BY <2>1, <2>3 DEF Pauses, Gap, GROUP_GAP_SEC
<1>7. Divides(E, M, Len(t), Pauses(t))
  BY <1>3, <1>5, <1>6 DEF Divides
<1>8. Phrasing(P, t, E, M)
  BY <1>1, <1>4, <1>7 DEF Phrasing
<1> QED
  BY <1>8

(* What is said without a pause is said in one phrase.                     *)
LEMMA SamePhrase ==
    ASSUME NEW P, NEW t, NEW E, NEW M, Phrasing(P, t, E, M),
           NEW u \in 1 .. Len(t), NEW v \in 1 .. Len(t), u <= v,
           \A n \in u .. v - 1 : n \notin Pauses(t)
    PROVE  t[v].end - t[u].start <= OVERLAP_SEC
<1>1. t \in Seq(HeardWord) /\ Timed(t) /\ Ranges(P, t, Len(t), E, M)
      /\ Rising(E, M, Len(t)) /\ \A i \in 1 .. M - 1 : E[i] \in Pauses(t)
  BY DEF Phrasing, Divides
<1>2. /\ M \in Nat /\ E[M] = Len(t)
      /\ \A i \in 1 .. M : /\ E[i - 1] \in Nat /\ E[i] \in 1 .. Len(t) /\ E[i - 1] < E[i]
                           /\ E[i - 1] + 1 \in 1 .. Len(t)
  BY <1>1, RangesRise DEF Rising
<1>3. PICK j \in 1 .. M : E[j - 1] < u /\ u <= E[j]
  BY <1>1, RisingOver
<1>4. v <= E[j]
  <2> SUFFICES ASSUME E[j] < v PROVE FALSE
    BY <1>2
  <2>1. E[j] \in u .. v - 1
    BY <1>2, <1>3
  <2>2. j # M
    BY <1>2
  <2>3. j \in 1 .. M - 1
    BY <1>2, <2>2
  <2> QED
    BY <1>1, <2>1, <2>3
<1>5. E[j - 1] + 1 <= u /\ E[j - 1] + 1 \in 1 .. Len(t) /\ E[j] \in 1 .. Len(t)
  BY <1>2, <1>3
<1>6. t[E[j - 1] + 1].start <= t[u].start /\ t[E[j - 1] + 1].start \in Int /\ t[u].start \in Int
  BY <1>1, <1>5, Later
<1>7. t[v].end <= t[E[j]].end /\ t[v].end \in Int /\ t[E[j]].end \in Int
  BY <1>1, <1>4, <1>5, Later
<1>8. t[E[j]].end - t[E[j - 1] + 1].start <= OVERLAP_SEC
  BY DEF Phrasing
<1> QED
  BY <1>6, <1>7, <1>8 DEF OVERLAP_SEC

(* The stamps of a chunk: what its window hears, in its own time.          *)
WindowStamps(x, t, w, a, b) ==
    /\ a \in Nat /\ b \in Nat /\ a <= b /\ b <= Len(t) /\ Heard(t, w) = a + 1 .. b
    /\ x \in Seq(HeardWord) /\ Len(x) = b - a /\ Timed(x) /\ Unpaused(x)
    /\ \A k \in 1 .. b - a : /\ x[k].word = t[a + k].word
                             /\ x[k].start = LargerOf(t[a + k].start, w.from) - w.from
                             /\ x[k].end = LeastOf(t[a + k].end, w.to) - w.from
    /\ \A k \in 1 .. (b - a) - 1 : Gap(x, k) = Gap(t, a + k)

(* What _attach_display_text makes of what is transcribed is that.         *)
LEMMA StampsAre ==
    ASSUME NEW t \in Seq(HeardWord), Timed(t), Unpaused(t),
           NEW w, w.from \in Int, w.to \in Int, w.from < w.to
    PROVE  \E a, b : WindowStamps(_attach_display_text(Transcribed(t, w)), t, w, a, b)
<1>1. PICK s : s = Transcribed(t, w)
  OBVIOUS
<1>2. PICK a, b \in 0 .. Len(t) : HeardAs(s, t, w, a, b)
  BY <1>1, TranscribedIs
<1>3. /\ a <= b /\ Heard(t, w) = a + 1 .. b
      /\ s \in Seq(HeardWord) /\ Len(s) = b - a
      /\ \A k \in 1 .. b - a : /\ s[k].word = t[a + k].word
                               /\ s[k].start = LargerOf(t[a + k].start, w.from) - w.from
                               /\ s[k].end = LeastOf(t[a + k].end, w.to) - w.from
                               /\ s[k].glue = t[a + k].glue
  BY <1>2 DEF HeardAs
<1>4. Timed(s) /\ \A k \in 1 .. (b - a) - 1 : Gap(s, k) = Gap(t, a + k)
  BY <1>2, WindowIs
<1>5. PICK x : x = _attach_display_text(s)
  OBVIOUS
<1>6. /\ x \in Seq(HeardWord) /\ Len(x) = b - a
      /\ \A k \in 1 .. b - a : /\ x[k].word = s[k].word /\ x[k].start = s[k].start
                               /\ x[k].end = s[k].end /\ (x[k].glue => s[k].glue)
  BY <1>3, <1>5, AttachedIs DEF AttachedAs
<1>7. Timed(x)
  <2>1. DOMAIN x = 1 .. b - a /\ DOMAIN s = 1 .. b - a
    BY <1>3, <1>6
  <2> QED
    BY <1>4, <1>6, <2>1 DEF Timed
<1>8. ASSUME NEW k \in 1 .. (b - a) - 1 PROVE Gap(x, k) = Gap(t, a + k)
  <2>1. k \in 1 .. b - a /\ k + 1 \in 1 .. b - a
    OBVIOUS
  <2>2. Gap(x, k) = Gap(s, k)
    BY <1>6, <2>1 DEF Gap
  <2> QED
    BY <1>4, <2>2
<1>9. Unpaused(x)
  <2>1. DOMAIN x = 1 .. b - a
    BY <1>6
  <2>2. ASSUME NEW k \in 1 .. b - a, k # 1, x[k].glue
        PROVE  x[k].start - x[k - 1].end < GROUP_GAP_SEC
    <3>1. k - 1 \in 1 .. (b - a) - 1 /\ (k - 1) + 1 = k /\ a + (k - 1) = (a + k) - 1
      BY <2>2
    <3>2. Gap(x, k - 1) = Gap(t, (a + k) - 1)
      BY <1>8, <3>1
    <3>3. Gap(x, k - 1) = x[k].start - x[k - 1].end
      BY <3>1 DEF Gap
    <3>4. a + k \in DOMAIN t \ {1} /\ ((a + k) - 1) + 1 = a + k
      BY <2>2
    <3>5. Gap(t, (a + k) - 1) = t[a + k].start - t[(a + k) - 1].end
      BY <3>4 DEF Gap
    <3>6. t[a + k].glue
      <4>1. s[k].glue
        BY <1>6, <2>2
      <4> QED
        BY <1>3, <4>1
    <3>7. t[a + k].start - t[(a + k) - 1].end < GROUP_GAP_SEC
      BY <3>4, <3>6 DEF Unpaused
    <3> QED
      BY <3>2, <3>3, <3>5, <3>7
  <2> QED
    BY <2>1, <2>2 DEF Unpaused
<1>10. \A k \in 1 .. b - a : /\ x[k].word = t[a + k].word
                             /\ x[k].start = LargerOf(t[a + k].start, w.from) - w.from
                             /\ x[k].end = LeastOf(t[a + k].end, w.to) - w.from
  BY <1>3, <1>6
<1>11. a \in Nat /\ b \in Nat /\ b <= Len(t)
  BY <1>2
<1>12. WindowStamps(x, t, w, a, b)
  BY <1>3, <1>6, <1>7, <1>8, <1>9, <1>10, <1>11 DEF WindowStamps
<1> QED
  BY <1>1, <1>5, <1>12

(* What is heard of a word lies inside it.                                 *)
LEMMA HeardInside ==
    ASSUME NEW t \in Seq(HeardWord), Timed(t), NEW w, w.from \in Int, w.to \in Int, w.from < w.to,
           NEW a, NEW b, NEW x, WindowStamps(x, t, w, a, b), NEW k \in 1 .. b - a
    PROVE  /\ a + k \in 1 .. Len(t) /\ a + k \in a + 1 .. b
           /\ x[k].start \in Int /\ x[k].end \in Int
           /\ t[a + k].start < w.to /\ t[a + k].end > w.from
           /\ t[a + k].start <= x[k].start + w.from /\ x[k].end + w.from <= t[a + k].end
<1>1. /\ a \in Nat /\ b \in Nat /\ b <= Len(t) /\ Heard(t, w) = a + 1 .. b
      /\ x[k].start = LargerOf(t[a + k].start, w.from) - w.from
      /\ x[k].end = LeastOf(t[a + k].end, w.to) - w.from
  BY DEF WindowStamps
<1>2. a + k \in 1 .. Len(t) /\ a + k \in a + 1 .. b
  BY <1>1
<1>3. t[a + k].start < w.to /\ t[a + k].end > w.from
  BY <1>1, <1>2 DEF Heard
<1>4. PICK s, e, f, g \in Int : s = t[a + k].start /\ e = t[a + k].end /\ f = w.from /\ g = w.to
  BY <1>2, Later
<1> DEFINE u == LargerOf(s, f) - f
           v == LeastOf(e, g) - f
<1>5. u \in Int /\ v \in Int /\ s <= u + f /\ v + f <= e
  BY DEF LargerOf, LeastOf
<1>6. x[k].start = u /\ x[k].end = v
  BY <1>1, <1>4
<1> HIDE DEF u, v
<1> QED
  BY <1>2, <1>3, <1>4, <1>5, <1>6

(* The segments of a chunk are divided where what was said pauses.         *)
LEMMA StampsDivide ==
    ASSUME NEW P, NEW t, NEW E, NEW M, Phrasing(P, t, E, M),
           NEW w, w.from \in Int, w.to \in Int, w.from < w.to,
           NEW a, NEW b, NEW x, WindowStamps(x, t, w, a, b),
           NEW Q, NEW F, NEW N, Ranges(Q, x, b - a, F, N)
    PROVE  Divides(F, N, b - a, Pauses(x))
<1>0. t \in Seq(HeardWord) /\ Timed(t)
  BY DEF Phrasing
<1>1. /\ a \in Nat /\ b \in Nat /\ a <= b /\ b <= Len(t)
      /\ x \in Seq(HeardWord) /\ Len(x) = b - a /\ Timed(x)
      /\ \A k \in 1 .. (b - a) - 1 : Gap(x, k) = Gap(t, a + k)
  BY DEF WindowStamps
<1>2. Ranges(Q, x, Len(x), F, N)
  BY <1>1
<1>3. /\ N \in Nat /\ F[N] = b - a /\ Rising(F, N, b - a)
      /\ \A i \in 1 .. N : /\ F[i - 1] \in Nat /\ F[i] \in 1 .. b - a /\ F[i - 1] < F[i]
                           /\ F[i - 1] + 1 \in 1 .. b - a
  BY <1>1, <1>2, RangesRise DEF Rising
<1>4. /\ \A i \in 1 .. N : Run(x, F[i - 1], F[i])
      /\ \A i \in 1 .. N - 1 : Break(x, F[i - 1], F[i])
  BY DEF Ranges
<1>5. \A k \in 1 .. (b - a) - 1 : k \in Pauses(x) <=> a + k \in Pauses(t)
  <2> TAKE k \in 1 .. (b - a) - 1
  <2>1. a + k \in 1 .. Len(t) - 1
    BY <1>1
  <2> QED
    BY <1>1, <2>1 DEF Pauses
<1>6. ASSUME NEW i \in 1 .. N, NEW n \in F[i - 1] + 1 .. F[i] - 1 PROVE n \notin Pauses(x)
  <2>1. Gap(x, n) < GROUP_GAP_SEC
    BY <1>4 DEF Run
  <2>2. n \in 1 .. Len(x) /\ n + 1 \in 1 .. Len(x) /\ n <= n
    <3>1. PICK y, z \in Nat : y = F[i - 1] /\ z = F[i] /\ z <= b - a
      BY <1>3
    <3>2. n \in y + 1 .. z - 1
      BY <3>1
    <3>3. PICK m \in Nat : m = b - a
      BY <1>1
    <3>4. n \in 1 .. m /\ n + 1 \in 1 .. m /\ n <= n
      BY <3>1, <3>2, <3>3
    <3> QED
      BY <1>1, <3>3, <3>4
  <2>3. x[n].end \in Int
    BY <1>1, <2>2, Later
  <2>4. x[n + 1].start \in Int
    BY <1>1, <2>2, Later
  <2>5. PICK g \in Int : g = Gap(x, n)
    BY <2>3, <2>4 DEF Gap
  <2>6. ~(g >= GROUP_GAP_SEC)
    BY <2>1, <2>5 DEF GROUP_GAP_SEC
  <2> QED
    BY <2>5, <2>6 DEF Pauses
<1>7. ASSUME NEW i \in 1 .. N - 1 PROVE F[i] \in Pauses(x)
  <2> SUFFICES ASSUME F[i] \notin Pauses(x) PROVE FALSE
    OBVIOUS
  <2>1. i \in 1 .. N /\ i + 1 \in 1 .. N /\ (i + 1) - 1 = i
    BY <1>3
  <2>2. PICK y, z \in Nat : y = F[i - 1] /\ z = F[i]
    BY <1>3, <2>1
  <2>3. y < z /\ z + 1 \in 1 .. b - a /\ z \in 1 .. (b - a) - 1 /\ y + 1 \in 1 .. b - a
    <3>2. z + 1 \in 1 .. b - a
      <4>1. F[(i + 1) - 1] + 1 \in 1 .. b - a
        BY <1>3, <2>1
      <4> QED
        BY <2>1, <2>2, <4>1
    <3>3. y < z /\ y + 1 \in 1 .. b - a
      BY <1>3, <2>1, <2>2
    <3>4. z \in 1 .. b - a
      BY <1>3, <2>1, <2>2
    <3> QED
      BY <1>1, <3>2, <3>3, <3>4
  <2>4. \A n \in y + 1 .. z : n \notin Pauses(x)
    <3>1. \A n \in y + 1 .. z : n \in y + 1 .. z - 1 \/ n = z
      BY <2>3
    <3> QED
      BY <1>6, <2>1, <2>2, <3>1
  <2>5. PICK u, v \in 1 .. Len(t) : u = a + (y + 1) /\ v = a + (z + 1) /\ u <= v
    BY <1>1, <2>3
  <2>6. \A n \in u .. v - 1 : n \notin Pauses(t)
    <3> TAKE n \in u .. v - 1
    <3>1. n - a \in y + 1 .. z /\ a + (n - a) = n /\ n - a \in 1 .. (b - a) - 1
      BY <1>1, <2>3, <2>5
    <3> QED
      BY <1>5, <2>4, <3>1
  <2>7. t[v].end - t[u].start <= OVERLAP_SEC
    BY <2>5, <2>6, SamePhrase
  <2>8. /\ x[z + 1].end \in Int /\ x[z + 1].end + w.from <= t[v].end
        /\ x[y + 1].start \in Int /\ t[u].start <= x[y + 1].start + w.from
    BY <1>0, <2>3, <2>5, HeardInside
  <2>9. t[u].start \in Int /\ t[v].end \in Int
    BY <1>0, <2>5, Later
  <2>10. x[z + 1].end - x[y + 1].start <= 8
    <3>1. PICK p, q, r, s, f \in Int : /\ p = t[u].start /\ q = t[v].end /\ r = x[y + 1].start
                                       /\ s = x[z + 1].end /\ f = w.from
      BY <2>8, <2>9
    <3>2. q - p <= 8 /\ s + f <= q /\ p <= r + f
      BY <2>7, <2>8, <3>1 DEF OVERLAP_SEC
    <3>3. s - r <= 8
      BY <3>2
    <3> QED
      BY <3>1, <3>3
  <2>11. Break(x, y, z)
    BY <1>4, <2>2
  <2>12. Gap(x, z) >= GROUP_GAP_SEC
    <3>1. ~(x[z + 1].end - x[y + 1].start > 30)
      BY <2>8, <2>10
    <3> QED
      BY <2>11, <3>1 DEF Break, GROUP_MAX_SEC
  <2>13. z \in Pauses(x)
    BY <1>1, <2>3, <2>12 DEF Pauses
  <2> QED
    BY <2>2, <2>13
<1> QED
  BY <1>3, <1>6, <1>7 DEF Divides

(* A phrase, its words and the way it goes on.                             *)
LEMMA PhraseIs ==
    ASSUME NEW P, NEW t, NEW E, NEW M, Phrasing(P, t, E, M), NEW i \in 1 .. M
    PROVE  /\ E[i - 1] \in Nat /\ E[i] \in 1 .. Len(t) /\ E[i - 1] < E[i]
           /\ E[i - 1] + 1 \in 1 .. Len(t)
           /\ P[i] = Piece(t, E[i - 1], E[i])
           /\ P[i].start = t[E[i - 1] + 1].start /\ P[i].end = t[E[i]].end
           /\ P[i].start \in Int /\ P[i].end \in Int
           /\ \A n \in E[i - 1] + 1 .. E[i] - 1 :
                 n \in 1 .. Len(t) /\ n + 1 \in 1 .. Len(t) /\ t[n + 1].start <= t[n].end
<1>1. t \in Seq(HeardWord) /\ Timed(t) /\ Ranges(P, t, Len(t), E, M)
      /\ \A j \in 1 .. M : \A n \in E[j - 1] + 1 .. E[j] - 1 : n \notin Pauses(t)
  BY DEF Phrasing, Divides
<1>2. /\ E[i - 1] \in Nat /\ E[i] \in 1 .. Len(t) /\ E[i - 1] < E[i]
      /\ E[i - 1] + 1 \in 1 .. Len(t)
  BY <1>1, RangesRise
<1>3. P[i] = Piece(t, E[i - 1], E[i])
  BY <1>1 DEF Ranges
<1>4. P[i].start = t[E[i - 1] + 1].start /\ P[i].end = t[E[i]].end
  BY <1>3 DEF Piece
<1>5. PICK u, v \in Nat : /\ u = E[i - 1] /\ v = E[i] /\ u + 1 \in 1 .. Len(t) /\ v \in 1 .. Len(t)
                          /\ u + 1 <= v
  BY <1>2
<1>6. t[u + 1].start \in Int /\ t[v].end \in Int
  BY <1>1, <1>5, Later
<1>7. ASSUME NEW n \in u + 1 .. v - 1
      PROVE  n \in 1 .. Len(t) /\ n + 1 \in 1 .. Len(t) /\ t[n + 1].start <= t[n].end
  <2>1. n \in 1 .. Len(t) /\ n + 1 \in 1 .. Len(t) /\ n \in 1 .. Len(t) - 1 /\ n <= n + 1
    <3>1. PICK L \in Nat : L = Len(t)
      BY <1>1
    <3>2. v <= L
      BY <1>5, <3>1
    <3>3. n \in 1 .. L /\ n + 1 \in 1 .. L /\ n \in 1 .. L - 1 /\ n <= n + 1
      BY <3>2
    <3> QED
      BY <3>1, <3>3
  <2>2. n \notin Pauses(t)
    BY <1>1, <1>5
  <2>3. ~(Gap(t, n) >= GROUP_GAP_SEC)
    BY <2>1, <2>2 DEF Pauses
  <2>4. t[n].end \in Int /\ t[n + 1].start \in Int
    BY <1>1, <2>1, Later
  <2>5. PICK p, q \in Int : p = t[n + 1].start /\ q = t[n].end
    BY <2>4
  <2>6. ~(p - q >= 1)
    BY <2>3, <2>5 DEF Gap, GROUP_GAP_SEC
  <2> QED
    BY <2>1, <2>5, <2>6
<1> QED
  BY <1>2, <1>3, <1>4, <1>5, <1>6, <1>7

(* A window that hears words of a phrase hears the phrase.                 *)
LEMMA WordHeard ==
    ASSUME NEW P, NEW t, NEW E, NEW M, Phrasing(P, t, E, M), NEW i \in 1 .. M,
           NEW w, w.from \in Int, w.to \in Int,
           NEW n \in E[i - 1] + 1 .. E[i], n \in Heard(t, w)
    PROVE  i \in Heard(P, w)
<1>1. t \in Seq(HeardWord) /\ Timed(t) /\ DOMAIN P = 1 .. M
  BY DEF Phrasing, Ranges
<1>2. /\ E[i - 1] + 1 \in 1 .. Len(t) /\ E[i] \in 1 .. Len(t) /\ n \in 1 .. Len(t)
      /\ E[i - 1] + 1 <= n /\ n <= E[i]
      /\ P[i].start = t[E[i - 1] + 1].start /\ P[i].end = t[E[i]].end
  BY PhraseIs
<1>3. t[n].start < w.to /\ t[n].end > w.from
  BY DEF Heard
<1>4. P[i].start <= t[n].start /\ P[i].start \in Int /\ t[n].start \in Int
  BY <1>1, <1>2, Later
<1>5. t[n].end <= P[i].end /\ t[n].end \in Int /\ P[i].end \in Int
  BY <1>1, <1>2, Later
<1>6. P[i].start < w.to /\ P[i].end > w.from
  BY <1>3, <1>4, <1>5
<1> QED
  BY <1>1, <1>6 DEF Heard

(* One that hears no word hears no phrase: where a phrase goes on, one     *)
(* word ends where the next one starts.                                    *)
LEMMA NoPhraseHeard ==
    ASSUME NEW P, NEW t, NEW E, NEW M, Phrasing(P, t, E, M), NEW i \in 1 .. M,
           NEW w, w.from \in Int, w.to \in Int, w.from < w.to, i \in Heard(P, w)
    PROVE  \E n \in E[i - 1] + 1 .. E[i] : n \in Heard(t, w)
<1> SUFFICES ASSUME \A n \in E[i - 1] + 1 .. E[i] : n \notin Heard(t, w) PROVE FALSE
  OBVIOUS
<1>1. t \in Seq(HeardWord) /\ Timed(t)
  BY DEF Phrasing
<1>2. PICK u, v \in Nat : /\ u = E[i - 1] /\ v = E[i] /\ u < v /\ u + 1 \in 1 .. Len(t)
                          /\ v \in 1 .. Len(t)
                          /\ P[i].start = t[u + 1].start /\ P[i].end = t[v].end
                          /\ \A n \in u + 1 .. v - 1 : t[n + 1].start <= t[n].end
  <2>1. PICK u, v : u = E[i - 1] /\ v = E[i]
    OBVIOUS
  <2>2. /\ u \in Nat /\ v \in 1 .. Len(t) /\ u < v /\ u + 1 \in 1 .. Len(t)
        /\ P[i].start = t[u + 1].start /\ P[i].end = t[v].end
        /\ \A n \in u + 1 .. v - 1 : t[n + 1].start <= t[n].end
    BY <2>1, PhraseIs
  <2>3. u \in Nat /\ v \in Nat
    BY <1>1, <2>2
  <2> QED
    BY <2>1, <2>2, <2>3
<1>3. P[i].start < w.to /\ P[i].end > w.from
  BY DEF Heard
<1>4. ASSUME NEW n \in u + 1 .. v
      PROVE  /\ n \in 1 .. Len(t) /\ t[n].start \in Int /\ t[n].end \in Int
             /\ t[n].end > w.from => t[n].start >= w.to
  <2>1. n \in 1 .. Len(t) /\ n <= n
    BY <1>2
  <2>2. t[n].start \in Int /\ t[n].end \in Int
    BY <1>1, <2>1, Later
  <2>3. n \in DOMAIN t /\ n \notin Heard(t, w)
    BY <1>2, <2>1
  <2> QED
    BY <2>1, <2>2, <2>3 DEF Heard
<1> DEFINE T == {n \in u + 1 .. v : t[n].end > w.from}
<1>5. v \in T /\ T \subseteq Nat
  BY <1>2, <1>3
<1>6. PICK n \in T : \A k \in T : n <= k
  <2> HIDE DEF T
  <2> QED
    BY <1>5, LeastMember
<1>7. n \in u + 1 .. v /\ t[n].start >= w.to /\ t[n].start \in Int
  BY <1>4, <1>6
<1>8. n # u + 1
  BY <1>2, <1>3, <1>7
<1>9. PICK m \in u + 1 .. v - 1 : m = n - 1
  <2>1. n \in u + 1 .. v /\ n # u + 1 /\ u \in Nat /\ v \in Nat
    BY <1>2, <1>7, <1>8
  <2>2. n - 1 \in u + 1 .. v - 1
    BY <2>1
  <2> QED
    BY <2>2
<1>10. m \in u + 1 .. v /\ m < n /\ m + 1 = n /\ m \notin T
  BY <1>2, <1>6, <1>7, <1>9
<1>11. t[m].end <= w.from /\ t[m].end \in Int
  BY <1>4, <1>10
<1>12. t[n].start <= t[m].end
  BY <1>2, <1>9, <1>10
<1> QED
  BY <1>7, <1>11, <1>12

(* The words after the a-th up to the b-th begin in phrase c and end in d. *)
Spans(E, M, a, b, c, d) ==
    /\ c \in 1 .. M /\ d \in 1 .. M /\ c <= d
    /\ E[c - 1] <= a /\ a < E[c] /\ E[d - 1] < b /\ b <= E[d]

(* There are such phrases when there are words.                            *)
LEMMA Spanned ==
    ASSUME NEW E, NEW M, NEW L, Rising(E, M, L), NEW a \in Nat, NEW b \in Nat, a < b, b <= L
    PROVE  \E c, d : Spans(E, M, a, b, c, d)
<1>0. M \in Nat /\ L \in Nat /\ \A i \in 0 .. M : E[i] \in Int
  BY DEF Rising
<1>1. a + 1 \in 1 .. L /\ b \in 1 .. L
  BY <1>0
<1>2. PICK c \in 1 .. M : E[c - 1] < a + 1 /\ a + 1 <= E[c]
  BY <1>1, RisingOver
<1>3. PICK d \in 1 .. M : E[d - 1] < b /\ b <= E[d]
  BY <1>1, RisingOver
<1>4. c - 1 \in 0 .. M /\ c \in 0 .. M /\ d \in 0 .. M /\ d - 1 \in 0 .. M
  BY <1>0
<1>5. /\ E[c - 1] \in Int /\ E[c] \in Int /\ E[d] \in Int
      /\ E[c - 1] <= a /\ a < E[c]
  BY <1>0, <1>2, <1>4
<1>6. c <= d
  <2> SUFFICES ASSUME d < c PROVE FALSE
    BY <1>4
  <2>1. d <= c - 1
    BY <1>4
  <2>2. E[d] <= E[c - 1]
    BY <1>4, <2>1, RisingUp
  <2> QED
    BY <1>3, <1>5, <2>2
<1>7. Spans(E, M, a, b, c, d)
  BY <1>3, <1>5, <1>6 DEF Spans
<1> QED
  BY <1>7

(* Of the words that a window does not hear, those before the ones it does *)
(* end before it, those after them start after it.                         *)
LEMMA NotHeard ==
    ASSUME NEW t \in Seq(HeardWord), Timed(t), NEW w, w.from \in Int, w.to \in Int,
           NEW a \in Nat, NEW b \in Nat, a < b, b <= Len(t), Heard(t, w) = a + 1 .. b,
           NEW n \in 1 .. Len(t)
    PROVE  /\ t[n].start \in Int /\ t[n].end \in Int /\ t[n].start < t[n].end
           /\ n <= a => t[n].end <= w.from
           /\ b < n => w.to <= t[n].start
<1>1. n <= n /\ t[n].start \in Int /\ t[n].end \in Int /\ t[n].start < t[n].end
  BY Later
<1>2. n \notin a + 1 .. b => ~(t[n].start < w.to /\ t[n].end > w.from)
  BY DEF Heard
<1>3. a + 1 \in Heard(t, w) /\ b \in Heard(t, w) /\ a + 1 \in 1 .. Len(t) /\ b \in 1 .. Len(t)
  OBVIOUS
<1>4. t[a + 1].start < w.to /\ t[b].end > w.from
  BY <1>3 DEF Heard
<1>5. ASSUME n <= a PROVE t[n].end <= w.from
  <2>1. n <= a + 1
    BY <1>5
  <2>2. t[n].start <= t[a + 1].start /\ t[a + 1].start \in Int
    BY <1>3, <2>1, Later
  <2> QED
    BY <1>1, <1>2, <1>4, <1>5, <2>2
<1>6. ASSUME b < n PROVE w.to <= t[n].start
  <2>1. b <= n
    BY <1>6
  <2>2. t[b].end <= t[n].end /\ t[b].end \in Int
    BY <1>3, <2>1, Later
  <2> QED
    BY <1>1, <1>2, <1>4, <1>6, <2>2
<1> QED
  BY <1>1, <1>5, <1>6

(* The window hears the phrases of its words, and no other.                *)
LEMMA HeardPhrases ==
    ASSUME NEW P, NEW t, NEW E, NEW M, Phrasing(P, t, E, M),
           NEW w, w.from \in Int, w.to \in Int,
           NEW a \in Nat, NEW b \in Nat, a < b, b <= Len(t), Heard(t, w) = a + 1 .. b,
           NEW c, NEW d, Spans(E, M, a, b, c, d)
    PROVE  Heard(P, w) = c .. d
<1>1. /\ t \in Seq(HeardWord) /\ Timed(t) /\ DOMAIN P = 1 .. M /\ M \in Nat
      /\ Rising(E, M, Len(t))
  BY DEF Phrasing, Ranges, Divides
<1>2. /\ c \in 1 .. M /\ d \in 1 .. M /\ c <= d
      /\ E[c - 1] <= a /\ a < E[c] /\ E[d - 1] < b /\ b <= E[d]
  BY DEF Spans
<1>3. ASSUME NEW i \in 1 .. M
      PROVE  /\ E[i - 1] \in Nat /\ E[i] \in 1 .. Len(t) /\ E[i - 1] < E[i]
             /\ E[i - 1] + 1 \in 1 .. Len(t) /\ E[i] \in Nat
             /\ P[i].start = t[E[i - 1] + 1].start /\ P[i].end = t[E[i]].end
             /\ i \in 0 .. M /\ i - 1 \in 0 .. M
  <2>1. i \in 0 .. M /\ i - 1 \in 0 .. M
    BY <1>1
  <2>2. /\ E[i - 1] \in Nat /\ E[i] \in 1 .. Len(t) /\ E[i - 1] < E[i]
        /\ E[i - 1] + 1 \in 1 .. Len(t)
        /\ P[i].start = t[E[i - 1] + 1].start /\ P[i].end = t[E[i]].end
    BY PhraseIs
  <2>3. E[i] \in Nat
    BY <1>1, <2>2
  <2> QED
    BY <2>1, <2>2, <2>3
<1>4. \A i, j \in 0 .. M : i <= j => E[i] <= E[j]
  BY <1>1, RisingUp
<1>5. ASSUME NEW i \in c .. d PROVE i \in Heard(P, w)
  <2>0. i \in 1 .. M
    BY <1>1, <1>2
  <2>1. PICK u, v \in Nat : u = E[i - 1] /\ v = E[i] /\ u < v
    BY <1>3, <2>0
  <2>2. a < v
    <3>1. E[c] <= E[i] /\ E[c] \in Int
      BY <1>1, <1>2, <1>3, <1>4, <2>0
    <3> QED
      BY <1>2, <2>1, <3>1
  <2>3. u < b
    <3>1. i - 1 <= d - 1
      BY <1>1, <1>2
    <3>2. E[i - 1] <= E[d - 1] /\ E[d - 1] \in Int
      BY <1>2, <1>3, <1>4, <2>0, <3>1
    <3> QED
      BY <1>2, <2>1, <3>2
  <2>4. PICK n \in Nat : n \in u + 1 .. v /\ n \in a + 1 .. b
    <3>1. CASE a <= u
      <4>1. u + 1 \in u + 1 .. v /\ u + 1 \in a + 1 .. b
        BY <2>1, <2>3, <3>1
      <4> QED
        BY <4>1
    <3>2. CASE u < a
      <4>1. a + 1 \in u + 1 .. v /\ a + 1 \in a + 1 .. b
        BY <2>1, <2>2, <3>2
      <4> QED
        BY <4>1
    <3> QED
      BY <2>1, <3>1, <3>2
  <2>5. n \in E[i - 1] + 1 .. E[i] /\ n \in Heard(t, w)
    BY <2>1, <2>4
  <2> QED
    BY <2>0, <2>5, WordHeard
<1>6. ASSUME NEW i \in 1 .. M, i < c PROVE i \notin Heard(P, w)
  <2>1. i <= c - 1 /\ i \in 0 .. M /\ c - 1 \in 0 .. M
    BY <1>1, <1>2, <1>6
  <2>2. E[i] <= a
    <3>1. E[i] <= E[c - 1]
      BY <1>4, <2>1
    <3>2. E[i] \in Nat /\ E[c - 1] \in Nat /\ E[c - 1] <= a
      BY <1>2, <1>3
    <3> QED
      BY <3>1, <3>2
  <2>3. t[E[i]].end <= w.from /\ t[E[i]].end \in Int
    BY <1>1, <1>3, <2>2, NotHeard
  <2> QED
    BY <1>3, <2>3 DEF Heard
<1>7. ASSUME NEW i \in 1 .. M, d < i PROVE i \notin Heard(P, w)
  <2>1. d <= i - 1 /\ d \in 0 .. M /\ i - 1 \in 0 .. M
    BY <1>1, <1>2, <1>7
  <2>2. b < E[i - 1] + 1
    <3>1. E[d] <= E[i - 1]
      BY <1>4, <2>1
    <3>2. E[i - 1] \in Nat /\ E[d] \in Nat /\ b <= E[d]
      BY <1>2, <1>3
    <3> QED
      BY <3>1, <3>2
  <2>3. w.to <= t[E[i - 1] + 1].start /\ t[E[i - 1] + 1].start \in Int
    <3>1. E[i - 1] + 1 \in 1 .. Len(t)
      BY <1>3
    <3> QED
      BY <1>1, <2>2, <3>1, NotHeard
  <2> QED
    BY <1>3, <2>3 DEF Heard
<1>8. Heard(P, w) \subseteq 1 .. M
  BY <1>1 DEF Heard
<1>9. \A i \in 1 .. M : i \in c .. d \/ i < c \/ d < i
  BY <1>1, <1>2
<1> QED
  BY <1>2, <1>5, <1>6, <1>7, <1>8, <1>9

(* Where the phrases of a window end, counted in its own stamps.           *)
BordersOf(E, a, b, c, d) ==
    [j \in 0 .. (d - c) + 1 |-> IF j = 0 THEN 0 ELSE IF j = (d - c) + 1 THEN b - a
                                ELSE E[(c - 1) + j] - a]

(* They rise, and all but the outer ones are where phrases end.            *)
Bordering(G, K, E, M, a, b, c, d) ==
    /\ c \in Nat /\ d \in Nat /\ K \in Nat \ {0} /\ G \in [0 .. K -> 0 .. b - a]
    /\ G[0] = 0 /\ G[K] = b - a
    /\ \A j \in 1 .. K - 1 : /\ (c - 1) + j \in 1 .. M - 1 /\ G[j] \in 1 .. (b - a) - 1
                             /\ a + G[j] = E[(c - 1) + j]
    /\ \A j \in 1 .. K : /\ G[j - 1] \in Nat /\ G[j] \in Nat /\ G[j - 1] < G[j]
                         /\ (c - 1) + j \in 1 .. M
                         /\ E[((c - 1) + j) - 1] <= a + G[j - 1]
                         /\ a + G[j] <= E[(c - 1) + j]

LEMMA BordersAre ==
    ASSUME NEW E, NEW M, NEW L, Rising(E, M, L), NEW a \in Nat, NEW b \in Nat, a < b, b <= L,
           NEW c, NEW d, Spans(E, M, a, b, c, d),
           NEW G, G = BordersOf(E, a, b, c, d), NEW K, K = (d - c) + 1
    PROVE  Bordering(G, K, E, M, a, b, c, d)
<1>0. M \in Nat /\ L \in Nat /\ \A i \in 0 .. M : E[i] \in Nat
  BY DEF Rising
<1>1. /\ c \in 1 .. M /\ d \in 1 .. M /\ c <= d
      /\ E[c - 1] <= a /\ a < E[c] /\ E[d - 1] < b /\ b <= E[d]
  BY DEF Spans
<1>2. c \in Nat /\ d \in Nat /\ K \in Nat \ {0}
  BY <1>0, <1>1
<1>3. DOMAIN G = 0 .. K /\ G[0] = 0 /\ G[K] = b - a
      /\ \A j \in 1 .. K - 1 : G[j] = E[(c - 1) + j] - a
  BY <1>2 DEF BordersOf
<1>4. \A i, j \in 0 .. M : i <= j => E[i] <= E[j]
  BY RisingUp
<1>5. ASSUME NEW j \in 1 .. K - 1
      PROVE  /\ (c - 1) + j \in 1 .. M - 1 /\ G[j] \in 1 .. (b - a) - 1
             /\ a + G[j] = E[(c - 1) + j]
  <2>1. PICK i \in Nat : i = (c - 1) + j /\ i \in 1 .. M - 1 /\ i \in 0 .. M /\ c <= i /\ i <= d - 1
    BY <1>0, <1>1
  <2>2. c \in 0 .. M /\ d - 1 \in 0 .. M
    BY <1>0, <1>1
  <2>3. E[c] <= E[i] /\ E[i] <= E[d - 1] /\ E[i] \in Nat /\ E[c] \in Nat /\ E[d - 1] \in Nat
    BY <1>0, <1>4, <2>1, <2>2
  <2>4. PICK z \in Nat : z = E[i] /\ a < z /\ z < b
    BY <1>1, <2>3
  <2>5. G[j] = z - a
    BY <1>3, <2>1, <2>4
  <2> QED
    BY <2>1, <2>4, <2>5
<1>6. G[0] \in 0 .. b - a /\ G[K] \in 0 .. b - a /\ \A j \in 0 .. K : j = 0 \/ j = K \/ j \in 1 .. K - 1
  BY <1>2, <1>3
<1>7. G \in [0 .. K -> 0 .. b - a]
  <2>1. ASSUME NEW j \in 0 .. K PROVE G[j] \in 0 .. b - a
    <3>1. CASE j \in 1 .. K - 1
      <4>1. G[j] \in 1 .. (b - a) - 1
        BY <1>5, <3>1
      <4> QED
        BY <4>1
    <3>2. CASE j = 0 \/ j = K
      BY <1>6, <3>2
    <3> QED
      BY <1>6, <3>1, <3>2
  <2>2. G = [j \in 0 .. K |-> G[j]]
    BY <1>2 DEF BordersOf
  <2> QED
    BY <2>1, <2>2
<1>8. ASSUME NEW j \in 1 .. K
      PROVE  /\ G[j - 1] \in Nat /\ G[j] \in Nat /\ G[j - 1] < G[j]
             /\ (c - 1) + j \in 1 .. M
             /\ E[((c - 1) + j) - 1] <= a + G[j - 1]
             /\ a + G[j] <= E[(c - 1) + j]
  <2>1. PICK i \in 1 .. M : i = (c - 1) + j
    BY <1>0, <1>1
  <2>2. i \in 0 .. M /\ i - 1 \in 0 .. M /\ i - 1 = (c - 1) + (j - 1)
    BY <1>0, <1>1, <2>1
  <2>3. PICK y, z \in Nat : y = E[i - 1] /\ z = E[i]
    BY <1>0, <2>2
  <2>4. y < z
    BY <2>3 DEF Rising
  <2>5. j - 1 \in 0 .. K /\ j \in 0 .. K
    BY <1>2
  <2>6. PICK g, h \in Nat : g = G[j - 1] /\ h = G[j] /\ g <= b - a /\ h <= b - a
    BY <1>7, <2>5
  <2>7. j = 1 => g = 0 /\ y <= a
    BY <1>1, <1>3, <2>1, <2>3, <2>6
  <2>8. j # 1 => g \in 1 .. (b - a) - 1 /\ a + g = y
    <3>1. j # 1 => j - 1 \in 1 .. K - 1
      BY <1>2
    <3> QED
      BY <1>5, <2>2, <2>3, <2>6, <3>1
  <2>9. j = K => h = b - a /\ b <= z
    <3>1. j = K => i = d
      BY <1>2, <2>1
    <3> QED
      BY <1>1, <1>3, <2>3, <2>6, <3>1
  <2>10. j # K => h \in 1 .. (b - a) - 1 /\ a + h = z
    <3>1. j # K => j \in 1 .. K - 1
      BY <1>2
    <3> QED
      BY <1>5, <2>1, <2>3, <2>6, <3>1
  <2>11. y <= a + g /\ a + h <= z
    BY <2>7, <2>8, <2>9, <2>10
  <2>12. g < h
    BY <2>4, <2>7, <2>8, <2>9, <2>10
  <2> QED
    BY <2>1, <2>2, <2>3, <2>6, <2>11, <2>12
<1> QED
  BY <1>2, <1>3, <1>5, <1>7, <1>8 DEF Bordering

(* So the segments of a chunk are the phrases that its window hears.       *)
LEMMA ChunkBorders ==
    ASSUME NEW P, NEW t, NEW E, NEW M, Phrasing(P, t, E, M),
           NEW w, w.from \in Int, w.to \in Int, w.from < w.to,
           NEW a, NEW b, NEW x, WindowStamps(x, t, w, a, b), a < b,
           NEW Q, NEW F, NEW N, Ranges(Q, x, b - a, F, N),
           NEW c, NEW d, Spans(E, M, a, b, c, d),
           NEW G, G = BordersOf(E, a, b, c, d)
    PROVE  N = (d - c) + 1 /\ \A j \in 0 .. N : F[j] = G[j]
<1>1. PICK K : K = (d - c) + 1
  OBVIOUS
<1>2. /\ a \in Nat /\ b \in Nat /\ b <= Len(t) /\ x \in Seq(HeardWord) /\ Len(x) = b - a
      /\ \A k \in 1 .. (b - a) - 1 : Gap(x, k) = Gap(t, a + k)
  BY DEF WindowStamps
<1>3. /\ t \in Seq(HeardWord) /\ Rising(E, M, Len(t))
      /\ \A i \in 1 .. M - 1 : E[i] \in Pauses(t)
      /\ \A i \in 1 .. M : \A n \in E[i - 1] + 1 .. E[i] - 1 : n \notin Pauses(t)
  BY DEF Phrasing, Divides
<1>4. /\ c \in Nat /\ d \in Nat /\ K \in Nat \ {0} /\ G \in [0 .. K -> 0 .. b - a]
      /\ G[0] = 0 /\ G[K] = b - a
      /\ \A j \in 1 .. K - 1 : /\ (c - 1) + j \in 1 .. M - 1 /\ G[j] \in 1 .. (b - a) - 1
                               /\ a + G[j] = E[(c - 1) + j]
      /\ \A j \in 1 .. K : /\ G[j - 1] \in Nat /\ G[j] \in Nat /\ G[j - 1] < G[j]
                           /\ (c - 1) + j \in 1 .. M
                           /\ E[((c - 1) + j) - 1] <= a + G[j - 1]
                           /\ a + G[j] <= E[(c - 1) + j]
  <2>1. Bordering(G, K, E, M, a, b, c, d)
    BY <1>1, <1>2, <1>3, BordersAre
  <2> QED
    BY <2>1 DEF Bordering
<1>5. b - a \in Nat
  BY <1>2
<1>6. Rising(G, K, b - a)
  BY <1>4, <1>5 DEF Rising
<1>7. ASSUME NEW k \in 1 .. (b - a) - 1 PROVE k \in Pauses(x) <=> a + k \in Pauses(t)
  <2>1. a + k \in 1 .. Len(t) - 1 /\ k \in 1 .. Len(x) - 1
    BY <1>2
  <2> QED
    BY <1>2, <2>1 DEF Pauses
<1>8. ASSUME NEW j \in 1 .. K - 1 PROVE G[j] \in Pauses(x)
  <2>1. a + G[j] \in Pauses(t) /\ G[j] \in 1 .. (b - a) - 1
    BY <1>3, <1>4
  <2> QED
    BY <1>7, <2>1
<1>9. ASSUME NEW j \in 1 .. K, NEW n \in G[j - 1] + 1 .. G[j] - 1 PROVE n \notin Pauses(x)
  <2>1. PICK i \in 1 .. M : i = (c - 1) + j
    BY <1>4
  <2>2. PICK g, h \in Nat : g = G[j - 1] /\ h = G[j]
    BY <1>4
  <2>3. h <= b - a
    <3>1. j \in 0 .. K
      BY <1>4
    <3> QED
      BY <1>4, <1>5, <2>2, <3>1
  <2>4. PICK y, z \in Nat : y = E[i - 1] /\ z = E[i]
    <3>1. M \in Nat /\ i \in 0 .. M /\ i - 1 \in 0 .. M
      BY <1>3 DEF Rising
    <3>2. E[i - 1] \in 0 .. Len(t) /\ E[i] \in 0 .. Len(t) /\ Len(t) \in Nat
      BY <1>3, <3>1 DEF Rising
    <3>3. E[i - 1] \in Nat /\ E[i] \in Nat
      BY <3>2
    <3> QED
      BY <3>3
  <2>5. y <= a + g /\ a + h <= z
    BY <1>4, <2>1, <2>2, <2>4
  <2>6. n \in g + 1 .. h - 1
    BY <2>2
  <2>7. n \in 1 .. (b - a) - 1 /\ a + n \in y + 1 .. z - 1
    BY <1>2, <2>3, <2>5, <2>6
  <2>8. a + n \notin Pauses(t)
    BY <1>3, <2>4, <2>7
  <2> QED
    BY <1>7, <2>7, <2>8
<1>10. Divides(G, K, b - a, Pauses(x))
  BY <1>6, <1>8, <1>9 DEF Divides
<1>11. Divides(F, N, b - a, Pauses(x))
  BY StampsDivide
<1>12. N = K /\ \A j \in 0 .. N : F[j] = G[j]
  BY <1>10, <1>11, SameBorders
<1> QED
  BY <1>1, <1>12

(* A window that hears the words after the a-th up to the b-th, and a word *)
(* of phrase i with which what is heard of it begins or ends.              *)
HearsOnly(t, w, a, b) ==
    a \in Nat /\ b \in Nat /\ a < b /\ b <= Len(t) /\ Heard(t, w) = a + 1 .. b

OpensAt(E, i, n, a) == n \in Nat /\ E[i - 1] <= n /\ n < E[i] /\ (n = a \/ n = E[i - 1])
ClosesAt(E, i, n, b) == n \in Nat /\ E[i - 1] < n /\ n <= E[i] /\ (n = b \/ n = E[i])

(* Where a window begins inside a phrase, what it hears of the phrase      *)
(* begins with the window, and where it ends inside one, it ends with it.  *)
LEMMA ClippedStart ==
    ASSUME NEW P, NEW t, NEW E, NEW M, Phrasing(P, t, E, M), NEW i \in 1 .. M,
           NEW w, w.from \in Int, w.to \in Int,
           NEW a, NEW b, HearsOnly(t, w, a, b), NEW n, OpensAt(E, i, n, a)
    PROVE  /\ LargerOf(t[n + 1].start, w.from) = LargerOf(P[i].start, w.from)
           /\ LargerOf(P[i].start, w.from) = P[i].start => n = E[i - 1]
<1>0. /\ a \in Nat /\ b \in Nat /\ a < b /\ b <= Len(t) /\ Heard(t, w) = a + 1 .. b
      /\ n \in Nat /\ E[i - 1] <= n /\ n < E[i] /\ (n = a \/ n = E[i - 1])
  BY DEF HearsOnly, OpensAt
<1>1. t \in Seq(HeardWord) /\ Timed(t)
  BY DEF Phrasing
<1>2. PICK u : u = E[i - 1]
  OBVIOUS
<1>3. /\ u \in Nat /\ u + 1 \in 1 .. Len(t) /\ P[i].start = t[u + 1].start /\ P[i].start \in Int
      /\ \A k \in u + 1 .. E[i] - 1 :
            k \in 1 .. Len(t) /\ k + 1 \in 1 .. Len(t) /\ t[k + 1].start <= t[k].end
      /\ E[i] \in 1 .. Len(t)
  BY <1>2, PhraseIs
<1>4. CASE n = u
  BY <1>0, <1>2, <1>3, <1>4
<1>5. CASE u < n
  <2>1. n = a
    BY <1>0, <1>2, <1>3, <1>5
  <2>2. n \in u + 1 .. E[i] - 1
    BY <1>0, <1>1, <1>3, <1>5
  <2>3. n \in 1 .. Len(t) /\ n + 1 \in 1 .. Len(t) /\ t[n + 1].start <= t[n].end
    BY <1>3, <2>2
  <2>4. /\ t[n].start \in Int /\ t[n].end \in Int /\ t[n].start < t[n].end
        /\ t[n].end <= w.from
    <3>1. n <= a
      BY <1>0, <2>1
    <3> QED
      BY <1>1, <2>3, <3>1, <1>0, NotHeard
  <2>5. t[n + 1].start \in Int
    BY <1>0, <1>1, <2>3, NotHeard
  <2>6. P[i].start <= t[n].start
    <3>1. u + 1 <= n
      BY <1>0, <1>3, <1>5
    <3> QED
      BY <1>1, <1>3, <2>3, <3>1, Later
  <2>7. PICK p, q, f \in Int : p = t[n + 1].start /\ q = P[i].start /\ f = w.from
    BY <1>3, <2>5
  <2>8. PICK y, z \in Int : y = t[n].start /\ z = t[n].end
    BY <2>4
  <2>9. p <= f /\ q < f
    <3>1. p <= z /\ z <= f /\ q <= y /\ y < z
      BY <2>3, <2>4, <2>6, <2>7, <2>8
    <3> QED
      BY <3>1
  <2>10. LargerOf(p, f) = f /\ LargerOf(q, f) = f /\ f # q
    BY <2>9 DEF LargerOf
  <2> QED
    BY <1>2, <1>5, <2>7, <2>10
<1> QED
  BY <1>0, <1>2, <1>3, <1>4, <1>5

LEMMA ClippedEnd ==
    ASSUME NEW P, NEW t, NEW E, NEW M, Phrasing(P, t, E, M), NEW i \in 1 .. M,
           NEW w, w.from \in Int, w.to \in Int,
           NEW a, NEW b, HearsOnly(t, w, a, b), NEW n, ClosesAt(E, i, n, b)
    PROVE  /\ LeastOf(t[n].end, w.to) = LeastOf(P[i].end, w.to)
           /\ LeastOf(P[i].end, w.to) = P[i].end => n = E[i]
<1>0. /\ a \in Nat /\ b \in Nat /\ a < b /\ b <= Len(t) /\ Heard(t, w) = a + 1 .. b
      /\ n \in Nat /\ E[i - 1] < n /\ n <= E[i] /\ (n = b \/ n = E[i])
  BY DEF HearsOnly, ClosesAt
<1>1. t \in Seq(HeardWord) /\ Timed(t)
  BY DEF Phrasing
<1>2. PICK v : v = E[i]
  OBVIOUS
<1>3. /\ v \in 1 .. Len(t) /\ v \in Nat /\ P[i].end = t[v].end /\ P[i].end \in Int
      /\ \A k \in E[i - 1] + 1 .. v - 1 :
            k \in 1 .. Len(t) /\ k + 1 \in 1 .. Len(t) /\ t[k + 1].start <= t[k].end
      /\ E[i - 1] \in Nat
  BY <1>1, <1>2, PhraseIs
<1>4. CASE n = v
  BY <1>0, <1>2, <1>3, <1>4
<1>5. CASE n < v
  <2>1. n = b
    BY <1>0, <1>2, <1>3, <1>5
  <2>2. n \in E[i - 1] + 1 .. v - 1
    BY <1>0, <1>3, <1>5
  <2>3. n \in 1 .. Len(t) /\ n + 1 \in 1 .. Len(t) /\ t[n + 1].start <= t[n].end
    BY <1>3, <2>2
  <2>4. /\ t[n + 1].start \in Int /\ t[n + 1].end \in Int /\ t[n + 1].start < t[n + 1].end
        /\ w.to <= t[n + 1].start
    <3>1. b < n + 1
      BY <1>0, <2>1
    <3> QED
      BY <1>1, <2>3, <3>1, <1>0, NotHeard
  <2>5. t[n].end \in Int
    BY <1>0, <1>1, <2>3, NotHeard
  <2>6. t[n + 1].end <= P[i].end
    <3>1. n + 1 <= v
      BY <1>0, <1>3, <1>5
    <3> QED
      BY <1>1, <1>3, <2>3, <3>1, Later
  <2>7. PICK p, q, f \in Int : p = t[n].end /\ q = P[i].end /\ f = w.to
    BY <1>3, <2>5
  <2>8. PICK y, z \in Int : y = t[n + 1].start /\ z = t[n + 1].end
    BY <2>4
  <2>9. f <= p /\ f < q
    <3>1. y <= p /\ f <= y /\ z <= q /\ y < z
      BY <2>3, <2>4, <2>6, <2>7, <2>8
    <3> QED
      BY <3>1
  <2>10. LeastOf(p, f) = f /\ LeastOf(q, f) = f /\ f # q
    BY <2>9 DEF LeastOf
  <2> QED
    BY <1>2, <1>5, <2>7, <2>10
<1> QED
  BY <1>0, <1>2, <1>3, <1>4, <1>5

(* A segment of a chunk, in the time of the recording.                     *)
Moved(q, o) == [start |-> q.start + o, end |-> q.end + o, words |-> q.words]

(* Shifted moves every segment so.                                         *)
LEMMA MovedIs ==
    ASSUME NEW Q \in Seq(Grouping), NEW o \in Int
    PROVE  /\ Shifted(Q, o) \in Seq(Grouping) /\ Len(Shifted(Q, o)) = Len(Q)
           /\ \A j \in 1 .. Len(Q) : Shifted(Q, o)[j] = Moved(Q[j], o)
<1>1. PICK n \in Nat : n = Len(Q) /\ DOMAIN Q = 1 .. n
  OBVIOUS
<1>2. ASSUME NEW x \in Grouping
      PROVE  [x EXCEPT !.start = @ + o, !.end = @ + o] = Moved(x, o) /\ Moved(x, o) \in Grouping
  <2>1. x.start \in Int /\ x.end \in Int /\ x.words \in Seq(Nat)
    BY DEF Grouping
  <2>2. PICK s, e \in Int : s = x.start + o /\ e = x.end + o
    BY <2>1
  <2> DEFINE y == [x EXCEPT !.start = s, !.end = e]
  <2>3. y \in Grouping /\ y.start = s /\ y.end = e /\ y.words = x.words
    BY DEF Grouping
  <2>4. [x EXCEPT !.start = @ + o, !.end = @ + o] = y
    BY <2>2
  <2> HIDE DEF y
  <2>5. y = [start |-> y.start, end |-> y.end, words |-> y.words]
    BY <2>3 DEF Grouping
  <2>6. Moved(x, o) = [start |-> s, end |-> e, words |-> x.words]
    BY <2>2 DEF Moved
  <2>7. Moved(x, o) = y
    BY <2>3, <2>5, <2>6
  <2> QED
    BY <2>3, <2>4, <2>7
<1>3. \A j \in 1 .. n : Q[j] \in Grouping
  BY <1>1
<1>4. Shifted(Q, o) = [j \in 1 .. n |-> Moved(Q[j], o)]
  BY <1>1, <1>2, <1>3 DEF Shifted
<1>5. \A j \in 1 .. n : Moved(Q[j], o) \in Grouping
  BY <1>2, <1>3
<1>6. PICK f : f = [j \in 1 .. n |-> Moved(Q[j], o)]
  OBVIOUS
<1>7. f \in Seq(Grouping) /\ Len(f) = n /\ \A j \in 1 .. n : f[j] = Moved(Q[j], o)
  BY <1>5, <1>6
<1> QED
  BY <1>1, <1>4, <1>6, <1>7

(* A segment against the phrase that it is heard of.                       *)
LEMMA OneSegment ==
    ASSUME NEW P, NEW t, NEW E, NEW M, Phrasing(P, t, E, M), NEW i \in 1 .. M,
           NEW w, w.from \in Int, w.to \in Int, w.from < w.to,
           NEW a, NEW b, NEW x, WindowStamps(x, t, w, a, b),
           NEW g \in Nat, NEW h \in Nat, g < h, h <= b - a,
           E[i - 1] <= a + g, a + h <= E[i], g = 0 \/ a + g = E[i - 1], h = b - a \/ a + h = E[i],
           NEW y, y = Moved(Piece(x, g, h), w.from)
    PROVE  Clipped(y, P[i], w) /\ (y.start = P[i].start /\ y.end = P[i].end => y = P[i])
<1>1. /\ a \in Nat /\ b \in Nat /\ b <= Len(t) /\ Heard(t, w) = a + 1 .. b
      /\ \A k \in 1 .. b - a : /\ x[k].word = t[a + k].word
                               /\ x[k].start = LargerOf(t[a + k].start, w.from) - w.from
                               /\ x[k].end = LeastOf(t[a + k].end, w.to) - w.from
  BY DEF WindowStamps
<1>2. PICK m, n \in Nat : m = a + g /\ n = a + h /\ m < n
  BY <1>1
<1>3. PICK u, v : u = E[i - 1] /\ v = E[i]
  OBVIOUS
<1>4. /\ t \in Seq(HeardWord) /\ Timed(t) /\ u \in Nat /\ v \in 1 .. Len(t) /\ u < v
      /\ P[i] = Piece(t, u, v)
  <2>1. t \in Seq(HeardWord) /\ Timed(t)
    BY DEF Phrasing
  <2> QED
    BY <1>3, <2>1, PhraseIs
<1>5. /\ u <= m /\ m < v /\ (m = a \/ m = u) /\ u < n /\ n <= v /\ (n = b \/ n = v) /\ a < b
  <2>1. v \in Nat
    BY <1>4
  <2>2. u <= m /\ n <= v /\ m < v /\ u < n
    BY <1>2, <1>3, <1>4, <2>1
  <2>3. (m = a \/ m = u) /\ (n = b \/ n = v) /\ a < b
    BY <1>1, <1>2, <1>3
  <2> QED
    BY <2>2, <2>3
<1>6. /\ LargerOf(t[m + 1].start, w.from) = LargerOf(P[i].start, w.from)
      /\ LargerOf(P[i].start, w.from) = P[i].start => m = u
  <2>1. HearsOnly(t, w, a, b) /\ OpensAt(E, i, m, a)
    BY <1>1, <1>2, <1>3, <1>5 DEF HearsOnly, OpensAt
  <2>2. /\ LargerOf(t[m + 1].start, w.from) = LargerOf(P[i].start, w.from)
        /\ LargerOf(P[i].start, w.from) = P[i].start => m = E[i - 1]
    BY <2>1, ClippedStart
  <2> QED
    BY <1>3, <2>2
<1>7. /\ LeastOf(t[n].end, w.to) = LeastOf(P[i].end, w.to)
      /\ LeastOf(P[i].end, w.to) = P[i].end => n = v
  <2>1. HearsOnly(t, w, a, b) /\ ClosesAt(E, i, n, b)
    BY <1>1, <1>2, <1>3, <1>5 DEF HearsOnly, ClosesAt
  <2>2. /\ LeastOf(t[n].end, w.to) = LeastOf(P[i].end, w.to)
        /\ LeastOf(P[i].end, w.to) = P[i].end => n = E[i]
    BY <2>1, ClippedEnd
  <2> QED
    BY <1>3, <2>2
<1>8. y.start = x[g + 1].start + w.from /\ y.end = x[h].end + w.from
      /\ y = [start |-> y.start, end |-> y.end, words |-> [k \in 1 .. h - g |-> x[g + k].word]]
  BY DEF Moved, Piece
<1>9. g + 1 \in 1 .. b - a /\ h \in 1 .. b - a /\ a + (g + 1) = m + 1 /\ a + h = n
  <2>1. PICK l \in Nat : l = b - a
    BY <1>1, <1>5
  <2>2. g + 1 \in 1 .. l /\ h \in 1 .. l
    BY <2>1
  <2>3. a + (g + 1) = m + 1
    BY <1>1, <1>2
  <2> QED
    BY <1>2, <2>1, <2>2, <2>3
<1>10. y.start = LargerOf(P[i].start, w.from)
  <2>1. x[g + 1].start = LargerOf(P[i].start, w.from) - w.from
    BY <1>1, <1>6, <1>9
  <2>2. LargerOf(P[i].start, w.from) \in Int
    BY PhraseIs DEF LargerOf
  <2> QED
    BY <1>8, <2>1, <2>2
<1>11. y.end = LeastOf(P[i].end, w.to)
  <2>1. x[h].end = LeastOf(P[i].end, w.to) - w.from
    BY <1>1, <1>7, <1>9
  <2>2. LeastOf(P[i].end, w.to) \in Int
    BY PhraseIs DEF LeastOf
  <2> QED
    BY <1>8, <2>1, <2>2
<1>12. ASSUME y.start = P[i].start, y.end = P[i].end PROVE y = P[i]
  <2>1. m = u /\ n = v
    BY <1>6, <1>7, <1>10, <1>11, <1>12
  <2>2. h - g = v - u
    BY <1>1, <1>2, <2>1
  <2>3. ASSUME NEW k \in 1 .. h - g PROVE x[g + k].word = t[u + k].word
    <3>1. g + k \in 1 .. b - a /\ a + (g + k) = u + k
      BY <1>1, <1>2, <2>1
    <3> QED
      BY <1>1, <3>1
  <2>4. [k \in 1 .. h - g |-> x[g + k].word] = [k \in 1 .. v - u |-> t[u + k].word]
    BY <2>2, <2>3
  <2>5. P[i] = [start |-> P[i].start, end |-> P[i].end, words |-> [k \in 1 .. v - u |-> t[u + k].word]]
    BY <1>4 DEF Piece
  <2> QED
    BY <1>8, <1>12, <2>4, <2>5
<1> QED
  BY <1>10, <1>11, <1>12 DEF Clipped

(* Nothing but the same segment will do.                                   *)
Same == {p \in Grouping \X Grouping : p[1] = p[2]}

(* The segments of a chunk are what its window hears of the phrases: each  *)
(* is clipped as a word would be, and one that is whole is the phrase.     *)
LEMMA SegmentsHeard ==
    ASSUME NEW P, NEW t, NEW E, NEW M, Phrasing(P, t, E, M),
           NEW w, w.from \in Int, w.to \in Int, w.from < w.to,
           NEW a, NEW b, NEW x, WindowStamps(x, t, w, a, b), a < b,
           NEW Q, NEW F, NEW N, Ranges(Q, x, b - a, F, N),
           NEW c, NEW d, Spans(E, M, a, b, c, d)
    PROVE  HeardPart(Shifted(Q, w.from), P, w, Same)
<1>1. /\ a \in Nat /\ b \in Nat /\ b <= Len(t) /\ Heard(t, w) = a + 1 .. b
  BY DEF WindowStamps
<1>2. /\ t \in Seq(HeardWord) /\ Timed(t) /\ Rising(E, M, Len(t)) /\ M \in Nat
      /\ P \in Seq(Grouping) /\ Len(P) = M
  BY DEF Phrasing, Divides, Ranges
<1>3. /\ N \in Nat /\ Q \in Seq(Grouping) /\ Len(Q) = N
      /\ \A j \in 1 .. N : Q[j] = Piece(x, F[j - 1], F[j])
  BY DEF Ranges
<1>4. PICK G, K : G = BordersOf(E, a, b, c, d) /\ K = (d - c) + 1
  OBVIOUS
<1>5. Bordering(G, K, E, M, a, b, c, d)
  BY <1>1, <1>2, <1>4, BordersAre
<1>6. N = K /\ \A j \in 0 .. N : F[j] = G[j]
  BY <1>4, ChunkBorders
<1>7. PICK ys : ys = Shifted(Q, w.from)
  OBVIOUS
<1>8. /\ ys \in Seq(Grouping) /\ Len(ys) = N /\ \A j \in 1 .. N : ys[j] = Moved(Q[j], w.from)
  BY <1>3, <1>7, MovedIs
<1>9. c \in Nat /\ d \in Nat /\ c >= 1 /\ K \in Nat /\ c <= d
  BY <1>2, <1>5 DEF Bordering, Spans
<1>10. ASSUME NEW j \in 1 .. N
       PROVE  /\ (c - 1) + j \in 1 .. M /\ Clipped(ys[j], P[(c - 1) + j], w)
              /\ ys[j].start = P[(c - 1) + j].start /\ ys[j].end = P[(c - 1) + j].end
                    => ys[j] = P[(c - 1) + j]
  <2>1. PICK i \in 1 .. M : i = (c - 1) + j
    BY <1>5, <1>6 DEF Bordering
  <2>2. PICK g, h \in Nat : g = G[j - 1] /\ h = G[j]
    BY <1>5, <1>6 DEF Bordering
  <2>3. j \in 0 .. N /\ j - 1 \in 0 .. N
    BY <1>3
  <2>4. g < h /\ E[i - 1] <= a + g /\ a + h <= E[i]
    BY <1>5, <1>6, <2>1, <2>2 DEF Bordering
  <2>5. h <= b - a
    <3>1. G[j] \in 0 .. b - a
      BY <1>5, <1>6, <2>3 DEF Bordering
    <3> QED
      BY <1>1, <2>2, <3>1
  <2>6. g = 0 \/ a + g = E[i - 1]
    <3>1. CASE j = 1
      BY <1>5, <2>2, <3>1 DEF Bordering
    <3>2. CASE j # 1
      <4>1. j - 1 \in 1 .. K - 1 /\ (c - 1) + (j - 1) = i - 1
        BY <1>3, <1>6, <1>9, <2>1, <3>2
      <4> QED
        BY <1>5, <2>2, <4>1 DEF Bordering
    <3> QED
      BY <3>1, <3>2
  <2>7. h = b - a \/ a + h = E[i]
    <3>1. CASE j = K
      BY <1>5, <2>2, <3>1 DEF Bordering
    <3>2. CASE j # K
      <4>1. j \in 1 .. K - 1
        BY <1>3, <1>6, <3>2
      <4> QED
        BY <1>5, <2>1, <2>2, <4>1 DEF Bordering
    <3> QED
      BY <3>1, <3>2
  <2>8. PICK y : y = ys[j]
    OBVIOUS
  <2>9. y = Moved(Piece(x, g, h), w.from)
    BY <1>3, <1>6, <1>8, <2>2, <2>3, <2>8
  <2>10. Clipped(y, P[i], w) /\ (y.start = P[i].start /\ y.end = P[i].end => y = P[i])
    BY <2>4, <2>5, <2>6, <2>7, <2>9, OneSegment
  <2> QED
    BY <2>1, <2>8, <2>10
<1>11. PICK A \in Nat : A = c - 1 /\ A <= d /\ A + 1 = c /\ d - A = N
  BY <1>4, <1>6, <1>9
<1>12. Hearing(ys, P, w, A, d)
  <2>1. Heard(P, w) = c .. d
    BY <1>1, HeardPhrases
  <2>2. \A j \in 1 .. d - A : Clipped(ys[j], P[A + j], w)
    BY <1>10, <1>11
  <2> QED
    BY <1>8, <1>11, <2>1, <2>2 DEF Hearing
<1>13. Alike(ys, P, Same, A, d)
  <2>1. ASSUME NEW j \in 1 .. d - A, ys[j].start = P[A + j].start, ys[j].end = P[A + j].end
        PROVE  <<ys[j], P[A + j]>> \in Same
    <3>1. j \in 1 .. N /\ (c - 1) + j = A + j
      BY <1>11
    <3>2. ys[j] = P[A + j] /\ A + j \in 1 .. M
      BY <1>10, <2>1, <3>1
    <3>3. P[A + j] \in Grouping
      BY <1>2, <3>2
    <3> QED
      BY <3>2, <3>3 DEF Same
  <2> QED
    BY <2>1 DEF Alike
<1>14. HeardPart(ys, P, w, Same)
  BY <1>9, <1>11, <1>12, <1>13 DEF HeardPart
<1> QED
  BY <1>7, <1>14

(* A window that hears no word has no segments.                            *)
LEMMA SilenceHeard ==
    ASSUME NEW P, NEW t, NEW E, NEW M, Phrasing(P, t, E, M),
           NEW w, w.from \in Int, w.to \in Int, w.from < w.to,
           NEW a, NEW b, NEW x, WindowStamps(x, t, w, a, b), a = b,
           NEW Q, NEW F, NEW N, Ranges(Q, x, b - a, F, N)
    PROVE  HeardPart(Shifted(Q, w.from), P, w, Same)
<1>1. a \in Nat /\ b - a = 0 /\ Heard(t, w) = a + 1 .. b /\ Heard(t, w) = {}
      /\ x \in Seq(HeardWord) /\ Len(x) = b - a
  BY DEF WindowStamps
<1>2. /\ N \in Nat /\ Q \in Seq(Grouping) /\ Len(Q) = N /\ F[N] = b - a
  BY DEF Ranges
<1>3. N = 0
  <2> SUFFICES ASSUME N # 0 PROVE FALSE
    OBVIOUS
  <2>1. N \in 1 .. N
    BY <1>2
  <2>2. Ranges(Q, x, Len(x), F, N)
    BY <1>1
  <2>3. F[N] \in 1 .. Len(x)
    BY <1>1, <2>1, <2>2, RangesRise
  <2> QED
    BY <1>1, <2>3
<1>4. PICK ys : ys = Shifted(Q, w.from)
  OBVIOUS
<1>5. ys \in Seq(Grouping) /\ Len(ys) = 0
  BY <1>2, <1>3, <1>4, MovedIs
<1>6. Heard(P, w) = {}
  <2>1. DOMAIN P = 1 .. M
    BY DEF Phrasing, Ranges
  <2>2. ASSUME NEW i \in Heard(P, w) PROVE FALSE
    <3>1. i \in 1 .. M
      BY <2>1 DEF Heard
    <3> QED
      BY <1>1, <3>1, NoPhraseHeard
  <2> QED
    BY <2>2
<1>7. PICK z \in Nat : z = 0
  OBVIOUS
<1>8. z + 1 .. z = {} /\ 1 .. z - z = {} /\ z - z = 0 /\ z <= z
  OBVIOUS
<1>9. Hearing(ys, P, w, z, z) /\ Alike(ys, P, Same, z, z)
  BY <1>5, <1>6, <1>8 DEF Hearing, Alike
<1>10. HeardPart(ys, P, w, Same)
  BY <1>8, <1>9 DEF HeardPart
<1> QED
  BY <1>4, <1>10

(* What a window of a live recording gives, in the time of the recording.  *)
ChunkOf(t, w) == Shifted(transcribe_recording(t, w), w.from)

(* In either case it hears a part of the phrases.                          *)
LEMMA ChunkHeard ==
    ASSUME NEW P, NEW t, NEW E, NEW M, Phrasing(P, t, E, M), Unpaused(t),
           NEW w, w.from \in Int, w.to \in Int, w.from < w.to,
           w.to - w.from <= CHUNK_SEC + OVERLAP_SEC
    PROVE  ChunkOf(t, w) \in Seq(Grouping) /\ HeardPart(ChunkOf(t, w), P, w, Same)
<1>1. t \in Seq(HeardWord) /\ Timed(t) /\ Rising(E, M, Len(t))
  BY DEF Phrasing, Divides
<1>2. PICK x : x = _attach_display_text(Transcribed(t, w))
  OBVIOUS
<1>3. PICK a, b : WindowStamps(x, t, w, a, b)
  BY <1>1, <1>2, StampsAre
<1>4. a \in Nat /\ b \in Nat /\ a <= b /\ b <= Len(t)
      /\ x \in Seq(HeardWord) /\ Len(x) = b - a /\ Timed(x) /\ Unpaused(x)
  BY <1>3 DEF WindowStamps
<1>5. PICK Q : Q = _group_words(x)
  OBVIOUS
<1>6. PICK F, N : Ranges(Q, x, Len(x), F, N)
  BY <1>4, <1>5, GroupRanges
<1>7. Ranges(Q, x, b - a, F, N)
  BY <1>4, <1>6
<1>8. ChunkOf(t, w) = Shifted(Q, w.from)
  BY <1>1, <1>2, <1>5, ChunkGroups DEF ChunkOf
<1>9. Shifted(Q, w.from) \in Seq(Grouping)
  <2>1. Q \in Seq(Grouping)
    BY <1>7 DEF Ranges
  <2> QED
    BY <2>1, MovedIs
<1>10. HeardPart(Shifted(Q, w.from), P, w, Same)
  <2>1. CASE a = b
    BY <1>3, <1>7, <2>1, SilenceHeard
  <2>2. CASE a < b
    <3>1. PICK c, d : Spans(E, M, a, b, c, d)
      BY <1>1, <1>4, <2>2, Spanned
    <3> QED
      BY <1>3, <1>7, <2>2, <3>1, SegmentsHeard
  <2> QED
    BY <1>4, <2>1, <2>2
<1> QED
  BY <1>8, <1>9, <1>10

(* Phrases follow each other as words do.                                  *)
LEMMA PhrasesTimed ==
    ASSUME NEW P, NEW t, NEW E, NEW M, Phrasing(P, t, E, M)
    PROVE  /\ P \in Seq(Grouping) /\ Timed(P) /\ Short(P)
           /\ \A i \in DOMAIN P : \E m, n \in DOMAIN t : P[i].start = t[m].start /\ P[i].end = t[n].end
<1>1. /\ t \in Seq(HeardWord) /\ Timed(t) /\ Rising(E, M, Len(t)) /\ M \in Nat
      /\ P \in Seq(Grouping) /\ Len(P) = M /\ DOMAIN P = 1 .. M
      /\ \A i \in 1 .. M : t[E[i]].end - t[E[i - 1] + 1].start <= OVERLAP_SEC
  BY DEF Phrasing, Divides, Ranges
<1>2. ASSUME NEW i \in 1 .. M
      PROVE  /\ P[i].start \in Int /\ P[i].end \in Int /\ P[i].start < P[i].end
             /\ E[i - 1] + 1 \in 1 .. Len(t) /\ E[i] \in 1 .. Len(t)
             /\ P[i].start = t[E[i - 1] + 1].start /\ P[i].end = t[E[i]].end
  <2>1. /\ E[i - 1] \in Nat /\ E[i] \in 1 .. Len(t) /\ E[i - 1] < E[i]
        /\ E[i - 1] + 1 \in 1 .. Len(t)
        /\ P[i].start = t[E[i - 1] + 1].start /\ P[i].end = t[E[i]].end
        /\ P[i].start \in Int /\ P[i].end \in Int
    BY PhraseIs
  <2>2. E[i - 1] + 1 <= E[i]
    BY <1>1, <2>1
  <2>3. t[E[i - 1] + 1].start < t[E[i - 1] + 1].end /\ t[E[i - 1] + 1].end <= t[E[i]].end
        /\ t[E[i - 1] + 1].end \in Int
    BY <1>1, <2>1, <2>2, Later
  <2>4. P[i].start < P[i].end
    BY <2>1, <2>3
  <2> QED
    BY <2>1, <2>4
<1>3. ASSUME NEW i \in 1 .. M, NEW j \in 1 .. M, i < j PROVE P[i].end <= P[j].start
  <2>1. i \in 0 .. M /\ j - 1 \in 0 .. M /\ i <= j - 1
    BY <1>1, <1>3
  <2>2. E[i] <= E[j - 1]
    BY <1>1, <2>1, RisingUp
  <2>3. E[i] \in 1 .. Len(t) /\ E[j - 1] + 1 \in 1 .. Len(t) /\ E[j - 1] \in Nat
    BY <1>2, PhraseIs
  <2>4. E[i] < E[j - 1] + 1 /\ E[i] <= E[j - 1] + 1
    BY <1>1, <2>2, <2>3
  <2>5. t[E[i]].end <= t[E[j - 1] + 1].start
    BY <1>1, <2>3, <2>4, Later
  <2> QED
    BY <1>2, <2>5
<1>4. Timed(P)
  BY <1>1, <1>2, <1>3 DEF Timed
<1>5. Short(P)
  BY <1>1, <1>2 DEF Short
<1>6. \A i \in 1 .. M : \E m, n \in DOMAIN t : P[i].start = t[m].start /\ P[i].end = t[n].end
  <2>1. DOMAIN t = 1 .. Len(t)
    BY <1>1
  <2> QED
    BY <1>2, <2>1
<1> QED
  BY <1>1, <1>4, <1>5, <1>6

(* The chunks of a recording in minutes, and where they are cut.           *)
LEMMA ChunksDivide ==
    ASSUME NEW chunks, NEW length \in Nat, Minutes(chunks, length),
           NEW N \in Nat \ {0}, N = Len(chunks), NEW i \in 1 .. N
    PROVE  /\ chunks[i].audio.from \in Int /\ chunks[i].audio.to \in Int
           /\ chunks[i].audio.from < chunks[i].audio.to
           /\ chunks[i].audio.to - chunks[i].audio.from <= CHUNK_SEC + OVERLAP_SEC
           /\ chunks[i].offset = chunks[i].audio.from
           /\ i = 1 => chunks[i].audio.from = 0
           /\ i = N => chunks[i].audio.to = length
           /\ i # N => chunks[i].audio.to = i * CHUNK_SEC
           /\ i # 1 => /\ chunks[i].audio.from = (i - 1) * CHUNK_SEC - OVERLAP_SEC
                       /\ chunks[i].overlap = OVERLAP_SEC
           /\ chunks[i].overlap \in Int
<1>1. /\ chunks \in Seq(Chunk)
      /\ (N - 1) * CHUNK_SEC < length /\ length <= N * CHUNK_SEC
      /\ IsChunk(chunks[i], i) /\ chunks[i].audio.to = LeastOf(length, i * CHUNK_SEC)
  BY DEF Minutes
<1>2. chunks[i] \in Chunk
  BY <1>1
<1>3. PICK o, v, f, g \in Int : /\ o = chunks[i].offset /\ v = chunks[i].overlap
                               /\ f = chunks[i].audio.from /\ g = chunks[i].audio.to
  BY <1>2 DEF Chunk
<1>4. /\ o = Begin(i - 1) /\ f = o /\ o + v = (i - 1) * 120 /\ g = LeastOf(length, i * 120)
  BY <1>1, <1>3 DEF IsChunk, CHUNK_SEC
<1>5. (N - 1) * 120 < length /\ length <= N * 120
  BY <1>1 DEF CHUNK_SEC
<1>6. o = IF i = 1 THEN 0 ELSE (i - 1) * 120 - 8
  BY <1>4 DEF Begin, KeepFrom, CHUNK_SEC, OVERLAP_SEC
<1>7. g = IF i = N THEN length ELSE i * 120
  BY <1>4, <1>5 DEF LeastOf
<1>8. /\ f < g /\ g - f <= 128
      /\ i = 1 => f = 0
      /\ i # 1 => f = (i - 1) * 120 - 8 /\ v = 8
  <2>1. (i = 1 => f = 0) /\ (i # 1 => f = (i - 1) * 120 - 8 /\ v = 8)
    BY <1>4, <1>6
  <2>2. i \in Nat /\ i >= 1 /\ i <= N
    OBVIOUS
  <2>3. (i - 1) * 120 < g /\ g <= i * 120
    <3>1. CASE i = N
      BY <1>5, <1>7, <3>1
    <3>2. CASE i # N
      BY <1>7, <2>2, <3>2
    <3> QED
      BY <3>1, <3>2
  <2>4. f <= (i - 1) * 120 /\ i * 120 - f <= 128
    <3>1. CASE i = 1
      BY <2>1, <3>1
    <3>2. CASE i # 1
      BY <2>1, <2>2, <3>2
    <3> QED
      BY <3>1, <3>2
  <2> QED
    BY <2>1, <2>2, <2>3, <2>4
<1> QED
  BY <1>3, <1>4, <1>7, <1>8 DEF CHUNK_SEC, OVERLAP_SEC

(* What is merged of N chunks: each is cut at the middle of the overlap    *)
(* that it announced and of the one that the next chunk announced.         *)
CutsOf(chunks, N) ==
    [i \in 1 .. N + 1 |->
        chunks[LeastOf(i, N)].offset + chunks[LeastOf(i, N)].overlap \div 2]

(* What is cut and joined are the phrases.                                 *)
LEMMA ChunksJoin ==
    ASSUME NEW P, NEW t, NEW E, NEW M, Phrasing(P, t, E, M), Unpaused(t),
           NEW chunks, NEW length \in Nat, Minutes(chunks, length),
           Inside(t, [from |-> 0, to |-> length]),
           NEW N \in Nat \ {0}, N = Len(chunks),
           NEW parts, parts = [i \in 1 .. N |-> ChunkOf(t, chunks[i].audio)],
           NEW cut, cut = CutsOf(chunks, N)
    PROVE  InTime(FlattenSeq(Cuttings(parts, cut, N))) = P
<1>1. /\ P \in Seq(Grouping) /\ Timed(P) /\ Short(P)
      /\ \A i \in DOMAIN P : \E m, n \in DOMAIN t : P[i].start = t[m].start /\ P[i].end = t[n].end
  BY PhrasesTimed
<1>2. ASSUME NEW i \in DOMAIN P PROVE 0 <= P[i].start /\ P[i].end <= length
  BY <1>1 DEF Inside
<1> DEFINE ws == [i \in 1 .. N |-> chunks[i].audio]
<1>3. ASSUME NEW i \in 1 .. N
      PROVE  /\ chunks[i].audio.from \in Int /\ chunks[i].audio.to \in Int
             /\ chunks[i].audio.from < chunks[i].audio.to
             /\ chunks[i].audio.to - chunks[i].audio.from <= CHUNK_SEC + OVERLAP_SEC
             /\ chunks[i].offset = chunks[i].audio.from
             /\ i = 1 => chunks[i].audio.from = 0
             /\ i = N => chunks[i].audio.to = length
             /\ i # N => chunks[i].audio.to = i * CHUNK_SEC
             /\ i # 1 => /\ chunks[i].audio.from = (i - 1) * CHUNK_SEC - OVERLAP_SEC
                         /\ chunks[i].overlap = OVERLAP_SEC
             /\ chunks[i].overlap \in Int
  BY ChunksDivide
<1>4. ASSUME NEW i \in 1 .. N PROVE cut[i] = chunks[i].offset + chunks[i].overlap \div 2
  <2>1. i \in 1 .. N + 1 /\ LeastOf(i, N) = i
    BY DEF LeastOf
  <2> QED
    BY <2>1 DEF CutsOf
<1>5. /\ cut \in [1 .. N + 1 -> Int]
      /\ \A i \in 2 .. N : cut[i] = (i - 1) * 120 - 4
  <2>1. ASSUME NEW i \in 2 .. N PROVE cut[i] = (i - 1) * 120 - 4
    <3>1. i \in 1 .. N /\ i # 1
      OBVIOUS
    <3>2. chunks[i].offset = (i - 1) * 120 - 8 /\ chunks[i].overlap = 8
      BY <1>3, <3>1 DEF CHUNK_SEC, OVERLAP_SEC
    <3>3. cut[i] = ((i - 1) * 120 - 8) + 8 \div 2
      BY <1>4, <3>1, <3>2
    <3> QED
      BY <3>3
  <2>2. ASSUME NEW i \in 1 .. N
        PROVE  chunks[i].offset + chunks[i].overlap \div 2 \in Int
    <3>1. chunks[i].offset \in Int /\ chunks[i].overlap \in Int
      BY <1>3
    <3> QED
      BY <3>1
  <2>3. \A i \in 1 .. N + 1 : LeastOf(i, N) \in 1 .. N
    BY DEF LeastOf
  <2>4. \A i \in 1 .. N + 1 :
           chunks[LeastOf(i, N)].offset + chunks[LeastOf(i, N)].overlap \div 2 \in Int
    BY <2>2, <2>3
  <2>5. cut \in [1 .. N + 1 -> Int]
    BY <2>4 DEF CutsOf
  <2> QED
    BY <2>1, <2>5
<1>6. \A i \in 2 .. N - 1 : cut[i] <= cut[i + 1]
  <2> TAKE i \in 2 .. N - 1
  <2>1. i \in 2 .. N /\ i + 1 \in 2 .. N
    OBVIOUS
  <2>2. cut[i] = (i - 1) * 120 - 4 /\ cut[i + 1] = ((i + 1) - 1) * 120 - 4
    BY <1>5, <2>1
  <2> QED
    BY <2>2
<1>7. ASSUME NEW i \in 1 .. N
      PROVE  CutAt(P, ws[i], cut[i], cut[i + 1], i = 1, i = N)
  <2>1. PICK w : w = chunks[i].audio /\ w = ws[i]
    OBVIOUS
  <2>2. w.from \in Int /\ w.to \in Int
    BY <1>3, <2>1
  <2>3. cut[i] \in Int /\ cut[i + 1] \in Int
    <3>1. i \in 1 .. N + 1 /\ i + 1 \in 1 .. N + 1
      OBVIOUS
    <3> QED
      BY <1>5, <3>1
  <2>4. i = 1 => \A n \in DOMAIN P : w.from <= P[n].start
    BY <1>2, <1>3, <2>1
  <2>5. i # 1 => cut[i] = w.from + OVERLAP_SEC \div 2
    <3> SUFFICES ASSUME i # 1 PROVE cut[i] = w.from + OVERLAP_SEC \div 2
      OBVIOUS
    <3>1. i \in 2 .. N /\ w.from = (i - 1) * 120 - 8
      BY <1>3, <2>1 DEF CHUNK_SEC, OVERLAP_SEC
    <3>2. cut[i] = (i - 1) * 120 - 4
      BY <1>5, <3>1
    <3> QED
      BY <3>1, <3>2 DEF OVERLAP_SEC
  <2>6. i = N => \A n \in DOMAIN P : P[n].end <= w.to
    BY <1>2, <1>3, <2>1
  <2>7. i # N => cut[i + 1] = w.to - OVERLAP_SEC \div 2
    <3> SUFFICES ASSUME i # N PROVE cut[i + 1] = w.to - OVERLAP_SEC \div 2
      OBVIOUS
    <3>1. i + 1 \in 2 .. N /\ w.to = i * 120
      BY <1>3, <2>1 DEF CHUNK_SEC
    <3>2. cut[i + 1] = ((i + 1) - 1) * 120 - 4
      BY <1>5, <3>1
    <3> QED
      BY <3>1, <3>2 DEF OVERLAP_SEC
  <2> HIDE DEF ws
  <2>8. PICK p, q \in BOOLEAN : p = (i = 1) /\ q = (i = N)
    OBVIOUS
  <2>9. CutAt(P, w, cut[i], cut[i + 1], p, q)
    BY <2>2, <2>3, <2>4, <2>5, <2>6, <2>7, <2>8 DEF CutAt
  <2> QED
    BY <2>1, <2>8, <2>9
<1>8. ASSUME NEW i \in 1 .. N
      PROVE  parts[i] \in Seq(Grouping) /\ HeardPart(parts[i], P, ws[i], Same)
  <2>1. PICK w : w = chunks[i].audio /\ w = ws[i]
    OBVIOUS
  <2>2. /\ w.from \in Int /\ w.to \in Int /\ w.from < w.to
        /\ w.to - w.from <= CHUNK_SEC + OVERLAP_SEC
    BY <1>3, <2>1
  <2>3. ChunkOf(t, w) \in Seq(Grouping) /\ HeardPart(ChunkOf(t, w), P, w, Same)
    BY <2>2, ChunkHeard
  <2>4. parts[i] = ChunkOf(t, w)
    BY <2>1
  <2> HIDE DEF ws
  <2> QED
    BY <2>1, <2>3, <2>4
<1> HIDE DEF ws
<1>9. Division(parts, P, ws, cut, N, Grouping, Same)
  BY <1>5, <1>6, <1>7, <1>8 DEF Division
<1>10. PICK r, L : r = FlattenSeq(Cuttings(parts, cut, N)) /\ L = Len(P)
  OBVIOUS
<1>11. OwnOf(r, P, Grouping, Same, 0, L)
  BY <1>1, <1>9, <1>10, CutsJoin
<1>12. r = P
  <2>1. L \in Nat /\ L - 0 = L /\ \A k \in 1 .. L : 0 + k = k
    BY <1>1, <1>10
  <2>2. r \in Seq(Grouping) /\ Len(r) = L /\ \A k \in 1 .. L : <<r[k], P[k]>> \in Same
    BY <1>11, <2>1 DEF OwnOf
  <2>3. \A k \in 1 .. L : r[k] = P[k]
    BY <2>2 DEF Same
  <2> QED
    BY <1>1, <1>10, <2>1, <2>2, <2>3
<1>13. InTime(P) = P
  <2>1. \A i \in DOMAIN P : P[i].start \in Int /\ P[i].end \in Int /\ P[i].start < P[i].end
    BY <1>1 DEF Timed
  <2>2. \A i, j \in DOMAIN P : i < j => P[i].end <= P[j].start
    BY <1>1 DEF Timed
  <2>3. \A i, j \in DOMAIN P : i < j => P[i].start < P[j].start
    BY <2>1, <2>2
  <2> QED
    BY <1>1, <2>1, <2>3, SortedStays
<1> QED
  BY <1>10, <1>12, <1>13

(* However the microphone cuts its pieces and wherever the minutes cut     *)
(* what is said, as long as no phrase lasts longer than the overlap and    *)
(* none pauses inside a word written in pieces: the chunks give the        *)
(* phrases of a recording that nothing cut, every word once and in order   *)
(* (_emit, merge_chunk_segments, _group_words).                            *)
THEOREM ChunksKeepPhrases == RecorderSpec => []PhrasesOnce
<1>1. RecorderInv => PhrasesOnce
  <2> SUFFICES ASSUME RecorderInv, ~Recording, Unbroken,
                      \A p \in ToSet(Phrases) : p.end - p.start <= OVERLAP_SEC
               PROVE  FromChunks = Phrases /\ WordsOf(FromChunks) = Spoken
    BY DEF PhrasesOnce
  <2>1. talk \in Talks /\ Last(talk).end <= total /\ total \in Nat /\ Minutes(sent, total)
    BY DEF RecorderInv
  <2>2. /\ talk \in Seq(HeardWord) /\ talk # <<>> /\ Timed(talk) /\ Short(talk)
        /\ \A k \in DOMAIN talk : 0 <= talk[k].start /\ talk[k].end <= Last(talk).end
    BY <2>1, TalkIs
  <2>3. PICK L \in Nat \ {0} : L = Len(talk) /\ DOMAIN talk = 1 .. L
    BY <2>2, EmptySeq
  <2>4. talk[L].end \in Int /\ Last(talk) = talk[L]
    BY <2>2, <2>3 DEF Timed, Last
  <2>5. Inside(talk, [from |-> 0, to |-> total])
    BY <2>1, <2>2, <2>3, <2>4 DEF Inside, Timed
  <2>6. Unpaused(talk)
    BY DEF Unbroken, Unpaused
  <2>7. PICK P : P = Phrases
    OBVIOUS
  <2>8. \A i \in DOMAIN P : P[i].end - P[i].start <= OVERLAP_SEC
    BY <2>7 DEF ToSet
  <2>9. PICK E, M : Phrasing(P, talk, E, M)
    BY <2>2, <2>6, <2>7, <2>8, PhrasesAre DEF Phrases
  <2>10. PICK N \in Nat \ {0} : N = Len(sent) /\ DOMAIN sent = 1 .. N
    BY <2>1, EmptySeq DEF Minutes
  <2> DEFINE parts  == [i \in 1 .. N |-> ChunkOf(talk, sent[i].audio)]
             cut    == CutsOf(sent, N)
             chunks == [i \in DOMAIN sent |->
                           [offset |-> sent[i].offset, overlap |-> sent[i].overlap,
                            segments |-> transcribe_recording(talk, sent[i].audio)]]
  <2>11. FromChunks = InTime(FlattenSeq(Cuttings(parts, cut, N)))
    <3>1. DOMAIN chunks = 1 .. N /\ Len(chunks) = N
      BY <2>10
    <3>2. ASSUME NEW i \in 1 .. N
          PROVE  Belonging(Shifted(chunks[i].segments, chunks[i].offset),
                           chunks[i].offset + chunks[i].overlap \div 2,
                           chunks[LeastOf(i + 1, N)].offset
                             + chunks[LeastOf(i + 1, N)].overlap \div 2, i = 1, i = N)
                  = Belonging(parts[i], cut[i], cut[i + 1], i = 1, i = N)
      <4>1. chunks[i].offset = sent[i].audio.from
        <5>1. sent[i].offset = sent[i].audio.from
          BY <2>1, <2>10, ChunksDivide
        <5> QED
          BY <2>10, <5>1
      <4>2. Shifted(chunks[i].segments, chunks[i].offset) = parts[i]
        BY <2>10, <4>1 DEF ChunkOf
      <4>3. /\ i \in 1 .. N + 1 /\ i + 1 \in 1 .. N + 1 /\ LeastOf(i, N) = i
            /\ LeastOf(i + 1, N) \in 1 .. N
        BY DEF LeastOf
      <4>4. \A j \in 1 .. N : chunks[j].offset = sent[j].offset /\ chunks[j].overlap = sent[j].overlap
        BY <2>10
      <4>5. cut[i] = chunks[i].offset + chunks[i].overlap \div 2
        BY <4>3, <4>4 DEF CutsOf
      <4>6. cut[i + 1] = chunks[LeastOf(i + 1, N)].offset + chunks[LeastOf(i + 1, N)].overlap \div 2
        BY <4>3, <4>4 DEF CutsOf
      <4> HIDE DEF parts, cut, chunks
      <4> QED
        BY <4>2, <4>5, <4>6
    <3> HIDE DEF parts, cut
    <3>3. FromChunks = merge_chunk_segments(chunks)
      BY DEF FromChunks
    <3> HIDE DEF chunks
    <3>4. merge_chunk_segments(chunks) = InTime(FlattenSeq(Cuttings(parts, cut, N)))
      BY <3>1, <3>2 DEF merge_chunk_segments, Cut, Cuttings
    <3> QED
      BY <3>3, <3>4
  <2>12. FromChunks = P
    <3>1. InTime(FlattenSeq(Cuttings(parts, cut, N))) = P
      <4>1. PICK p, c : p = parts /\ c = cut
        OBVIOUS
      <4> HIDE DEF parts, cut
      <4>2. InTime(FlattenSeq(Cuttings(p, c, N))) = P
        BY <2>1, <2>5, <2>6, <2>9, <2>10, <4>1, ChunksJoin DEF parts, cut
      <4> QED
        BY <4>1, <4>2
    <3> QED
      BY <2>11, <3>1
  <2>13. WordsOf(P) = Spoken
    <3>1. HoldFirst(P, talk, L)
      BY <2>2, <2>3, <2>7, GroupsHoldAll DEF Phrases
    <3> QED
      BY <2>3, <3>1 DEF HoldFirst, Spoken
  <2> QED
    BY <2>7, <2>12, <2>13
<1> QED
  BY <1>1, RecorderKeeps, PTL
-----------------------------------------------------------------------------
(* The polled row (AsyncJob), for every set of rows.                       *)
CONSTANT Rows

VARIABLES status, pending

Job == INSTANCE AsyncJob

LEMMA StepCovered ==
    Job!TypeOK /\ Job!Covered /\ [Job!Next]_(Job!vars) => (Job!TypeOK /\ Job!Covered)'
<1> SUFFICES ASSUME Job!TypeOK, Job!Covered, [Job!Next]_(Job!vars)
             PROVE  Job!TypeOK' /\ Job!Covered'
  OBVIOUS
<1> USE DEF Job!TypeOK, Job!Covered, Job!Sets, Job!AsyncStatus, Job!Unfinished, Job!Settled
<1>1. ASSUME NEW S \in SUBSET Rows, Job!Accept(S) PROVE Job!TypeOK' /\ Job!Covered'
  BY <1>1 DEF Job!Accept
<1>2. ASSUME NEW S \in SUBSET Rows, Job!Remove(S) PROVE Job!TypeOK' /\ Job!Covered'
  BY <1>2 DEF Job!Remove
<1>3. ASSUME NEW r \in Rows, Job!Start(r) PROVE Job!TypeOK' /\ Job!Covered'
  BY <1>3 DEF Job!Start
<1>4. ASSUME NEW r \in Rows, Job!Settle(r) PROVE Job!TypeOK' /\ Job!Covered'
  BY <1>4 DEF Job!Settle
<1>5. CASE Job!JobsEnd
  BY <1>5 DEF Job!JobsEnd
<1>6. CASE Job!Recover
  BY <1>6 DEF Job!Recover
<1>7. CASE UNCHANGED Job!vars
  BY <1>7 DEF Job!vars
<1> QED
  BY <1>1, <1>2, <1>3, <1>4, <1>5, <1>6, <1>7 DEF Job!Next

(* What accepting, running, settling, losing and recovering jobs keeps: an *)
(* unfinished row has a job.                                               *)
THEOREM NeverForgotten == Job!Spec => []Job!Covered
  BY StepCovered, PTL DEF Job!Spec, Job!Init
=============================================================================
