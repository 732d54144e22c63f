------------------------------ MODULE Options ------------------------------
(***************************************************************************)
(* Storage options as Python values, and the hashable form under which     *)
(* their backend is cached.                                                *)
(***************************************************************************)
EXTENDS Integers, SequencesExt

Atom(n) == [type |-> "atom", value |-> n]
List(s) == [type |-> "list", value |-> s]
Pair(s) == [type |-> "tuple", value |-> s]
PySet(s) == [type |-> "set", value |-> s]
Dict(f) == [type |-> "dict", value |-> f]   \* f: a function from keys
Unhashable == [type |-> "unhashable", value |-> {}]

\* Atoms are numbered: 1 and True, then strings by their repr.  Keys are strings.
PyOne == 0
PyTrue == 1
PyStrings == Nat \ {PyOne, PyTrue}

CONSTANTS
    PyValues, \* the values options may be or hold, with the values in them
    Depth     \* [PyValues -> Nat]: how deeply values are nested in them

Sequence == {"list", "tuple"}

Inside(v) ==
    CASE v.type \in {"dict"} \cup Sequence -> {v.value[i] : i \in DOMAIN v.value}
      [] v.type = "set" -> v.value
      [] OTHER -> {}

\* No value is within itself, and Python nests none deeper than it can recurse.
ASSUME OptionsAssumption ==
    /\ Depth \in [PyValues -> Nat]
    /\ \E n \in {Depth[v] : v \in PyValues} : \A v \in PyValues : Depth[v] <= n
    /\ \A v \in PyValues :
          /\ Inside(v) \subseteq PyValues
          /\ \A x \in Inside(v) : Depth[x] < Depth[v]
          /\ \/ v = Atom(v.value) /\ v.value \in Nat
             \/ v = List(v.value) /\ v.value \in Seq(PyValues)
             \/ v = Pair(v.value) /\ v.value \in Seq(PyValues)
             \/ v = PySet(v.value)
             \/ /\ v = Dict(v.value)
                /\ IsFiniteSet(DOMAIN v.value) /\ DOMAIN v.value \subseteq PyStrings
             \/ v = Unhashable

\* True and 1 are equal and have one hash.
PyEqual(x, y) == x = y \/ {x, y} = {PyTrue, PyOne}

SortedKeys(f) == CHOOSE s \in [1..Cardinality(DOMAIN f) -> DOMAIN f] :
    \A i, j \in 1..Cardinality(DOMAIN f) : i < j => s[i] < s[j]

\* freeze_options.  A mapping becomes the tuple of its items, sorted; a list a
\* tuple; a set a frozenset.  What cannot be hashed raises, at any depth.
Frozen[v \in PyValues] ==
    IF v.type = "unhashable" \/ \E x \in Inside(v) : Frozen[x].type = "unhashable"
    THEN Unhashable
    ELSE CASE v.type = "dict" ->
                LET keys == SortedKeys(v.value) IN
                Pair([i \in DOMAIN keys |-> Pair(<<Atom(keys[i]), Frozen[v.value[keys[i]]]>>)])
           [] v.type \in Sequence -> Pair([i \in DOMAIN v.value |-> Frozen[v.value[i]]])
           [] v.type = "set" -> PySet({Frozen[x] : x \in v.value})
           [] OTHER -> Atom(IF v.value = PyTrue THEN PyOne ELSE v.value)

\* Faulty variant: what a mapping holds is frozen without the keys.
FreezeOptions_Values(v) ==
    IF v.type # "dict" THEN Frozen[v]
    ELSE LET keys == SortedKeys(v.value) IN
         Pair([i \in DOMAIN keys |-> Frozen[v.value[keys[i]]]])

FreezeOptions(v) == Frozen[v]

CanFreeze(v) == Frozen[v].type # "unhashable"

----------------------------------------------------------------------------

\* What two values may differ in and still be the same to a factory, as far as
\* ditto is concerned: list or tuple, True or 1, and a mapping or the sequence of
\* its items.  Read off the values, without freezing them.
AlikeAs[c \in PyValues \X PyValues] ==
    LET a == c[1]
        b == c[2]
        Each == /\ DOMAIN a.value = DOMAIN b.value
                /\ \A i \in DOMAIN a.value : AlikeAs[<<a.value[i], b.value[i]>>]
        Lists(s, d) ==
            LET keys == SortedKeys(d.value) IN
            /\ s.type \in Sequence /\ d.type = "dict" /\ DOMAIN s.value = DOMAIN keys
            /\ \A i \in DOMAIN keys :
                  LET item == s.value[i] IN
                  /\ item.type \in Sequence /\ Len(item.value) = 2
                  /\ item.value[1] = Atom(keys[i])
                  /\ AlikeAs[<<item.value[2], d.value[keys[i]]>>]
    IN  \/ a.type = "dict" /\ b.type = "dict" /\ Each
        \/ a.type \in Sequence /\ b.type \in Sequence /\ Each
        \/ Lists(a, b) \/ Lists(b, a)
        \/ /\ a.type = "set" /\ b.type = "set"
           /\ \A x \in a.value : \E y \in b.value : AlikeAs[<<x, y>>]
           /\ \A y \in b.value : \E x \in a.value : AlikeAs[<<x, y>>]
        \/ a.type = "atom" /\ b.type = "atom" /\ PyEqual(a.value, b.value)

============================================================================
