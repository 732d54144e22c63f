------------------------------- MODULE Names -------------------------------
(***************************************************************************)
(* The storage keys of snapshots (ditto.snapshot._flat_key, _remote_key)   *)
(* and the prefixes a module owns (ditto._reconcile.owned_prefixes).       *)
(*                                                                         *)
(* A path is a sequence of segments, its parts between slashes; a segment  *)
(* is a sequence of words, its parts between dots.  For the limit on file  *)
(* names a name also has a length.                                         *)
(***************************************************************************)
EXTENDS Integers, SequencesExt

CONSTANTS
    Words,          \* what stands between two dots
    Snapshots,      \* identities: node id, key and recorder
    ModuleOf,       \* [Snapshots -> Paths]
    ClassOf,        \* [Snapshots -> Seq(Words)]: the words of the label before its last dot
    TailOf,         \* [Snapshots -> Words]: the rest of the name, 'test@key~hash.ext'
    ModuleBytes,    \* [Snapshots -> Nat]: the module path's length in UTF-8
    GroupLen,       \* [Snapshots -> Nat]: the characters of the group name
    KeyLen,         \* [Snapshots -> Nat]: the characters of the key
    RecorderLen,    \* [Snapshots -> Nat]: the characters of the recorder's name
    LabelGroupMax, LabelKeyMax, LabelMin, HashLength, NameMaxBytes

Segments == Seq(Words) \ {<<>>}
Paths == Seq(Segments)

\* Tails differ, since the hash in them is taken from the whole identity.
ASSUME NamesAssumption ==
    /\ ModuleOf \in [Snapshots -> Paths \ {<<>>}]
    /\ ClassOf \in [Snapshots -> Seq(Words)]
    /\ TailOf \in [Snapshots -> Words]
    /\ \A s, r \in Snapshots : TailOf[s] = TailOf[r] => s = r
    /\ ModuleBytes \in [Snapshots -> Nat]
    /\ GroupLen \in [Snapshots -> Nat]
    /\ KeyLen \in [Snapshots -> Nat]
    /\ RecorderLen \in [Snapshots -> Nat]
    /\ {LabelGroupMax, LabelKeyMax, HashLength, NameMaxBytes} \subseteq Nat
    /\ LabelMin \in Nat \ {0}

Least(a, b) == IF a < b THEN a ELSE b
Greatest(a, b) == IF a < b THEN b ELSE a

\* The length of text[:n], for a text of length len.
Slice(len, n) == IF n < 0 THEN Greatest(len + n, 0) ELSE Least(len, n)

----------------------------------------------------------------------------
(* Faulty variants.                                                        *)

\* The limit is taken on the label alone, without the recorder's extension.
LabelRoom_NoExtension(s) == NameMaxBytes - (ModuleBytes[s] + HashLength + 3)

\* The prefix is the module's name without its directories.
OwnedPrefix_Stem(m, file) == IF file THEN Last(m) ELSE <<Last(m)>>

----------------------------------------------------------------------------
(* _label and _flat_key: the lengths.                                      *)

\* What a file name has left for its label: 'module.' + label + '~hash.' + ext.
LabelRoom(s) == NameMaxBytes - (ModuleBytes[s] + 1 + HashLength + 2) - RecorderLen[s]

\* _flat_key raises DittoSnapshotNameTooLongError otherwise.
Nameable(s) == LabelRoom(s) >= LabelMin

\* The parts of a label that has `space` characters for both, or no such limit.
WholeKey(s) == Slice(KeyLen[s], LabelKeyMax)
WholeGroup(s) == Slice(GroupLen[s], LabelGroupMax)

GroupPart(s, space) ==
    Slice(WholeGroup(s), Greatest(space - WholeKey(s), space \div 2))

KeyPart(s, space) == Slice(WholeKey(s), space - GroupPart(s, space))

FlatLength(s) ==
    LET space == LabelRoom(s) - 1
        label == GroupPart(s, space) + 1 + KeyPart(s, space)
    IN  ModuleBytes[s] + 1 + label + 1 + HashLength + 1 + RecorderLen[s]

----------------------------------------------------------------------------
(* The keys and the prefixes.                                              *)

Name(s) == Append(ClassOf[s], TailOf[s])

\* module.replace("/", ".")
Dotted(m) == FlattenSeq(m)

FlatKey(s) == <<Dotted(ModuleOf[s]) \o Name(s)>>
RemoteKey(s) == Append(ModuleOf[s], Name(s))

\* storage_key, and the fixture's key: file targets have flat names.
StorageKey(s, file) == IF file THEN FlatKey(s) ELSE RemoteKey(s)

\* 'module.' or 'module/', and whether a key starts with it.
OwnedPrefix(m, file) == IF file THEN Dotted(m) ELSE m

Owns(m, file, key) ==
    IF file THEN IsStrictPrefix(OwnedPrefix(m, file), Head(key))
            ELSE IsStrictPrefix(OwnedPrefix(m, file), key)

============================================================================
