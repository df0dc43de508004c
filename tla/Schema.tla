------------------------------- MODULE Schema -------------------------------
(***************************************************************************)
(* f8n::sdk::TSchema: schemas that plugins and hosts build entry by entry, *)
(* copy into one another and release.  Every entry owns the strings it     *)
(* points at, as C strings on the heap, and the destructor frees them.     *)
(***************************************************************************)
EXTENDS Naturals, FiniteSets, Sequences

CONSTANTS
  Schemas,
  Types,            (* Types of entries.                                    *)
  EntryNames,       (* Names of entries.                                    *)
  MaxSize,          (* Bounds the entries of a schema.                      *)
  MaxPlaces,        (* Bounds the entries whose strings are on the heap.    *)
  NoEntry           (* The null pointer FindByName may return.              *)

ASSUME SchemaAssumption ==
  /\ Types \subseteq {"Bool", "Int", "Double", "String", "Enum"}
  /\ MaxSize \in Nat /\ MaxPlaces \in Nat

VARIABLES
  entries,          (* The entries of each schema, in order.                *)
  released,         (* Schemas whose destructor has run.                    *)
  heap,             (* The strings that are allocated.                      *)
  freedTwice        (* A string was freed that was not allocated.           *)

schemaVars == <<entries, released, heap, freedTwice>>

(* AllocString is asked for a name, a default, two values: the strings of  *)
(* one entry lie at one place of the heap, and differ by their numbers.    *)
Needed(type) == CASE type = "String" -> 2 [] type = "Enum" -> 4 [] OTHER -> 1

Strings == (1..MaxPlaces) \X (1..4)
Entry == [type : Types, name : EntryNames, owned : SUBSET Strings]

IsFree(place) == \A x \in heap : x[1] # place

(* The places of the next n entries: it may be any, these are the first.   *)
AllocString(n) ==
  {at \in [1..n -> {x \in 1..MaxPlaces : IsFree(x)}] :
     \A i \in 1..n, x \in 1..MaxPlaces :
       x < at[i] /\ IsFree(x) <=> \E j \in 1..i - 1 : x = at[j]}

(* What one of the Add methods adds. *)
AddEntry(type, name, place) ==
  [type |-> type, name |-> name, owned |-> {place} \X (1..Needed(type))]

(* Mutant: a copy points at the strings of what it copies. *)
CopyShallow(e, place) == e

CopyEntry(e, place) == AddEntry(e.type, e.name, place)

InUse(s) == s \notin released

Build(s, added) ==
  /\ Len(entries[s]) + Len(added) <= MaxSize                           \* bound
  /\ entries' = [entries EXCEPT ![s] = @ \o added]
  /\ heap' = heap \cup UNION {added[i].owned : i \in DOMAIN added}
  /\ UNCHANGED <<released, freedTwice>>

AddNew(s, type, name) ==
  /\ InUse(s)
  /\ \E at \in AllocString(1) : Build(s, <<AddEntry(type, name, at[1])>>)

(* Add, of another schema: what is added to itself grows for ever. *)
AddAll(s, other) ==
  /\ InUse(s) /\ InUse(other) /\ s # other
  /\ \E at \in AllocString(Len(entries[other])) :
       Build(s, [i \in 1..Len(entries[other]) |-> CopyEntry(entries[other][i], at[i])])

(* Release, the destructor, frees the strings of one entry after another.  *)
Release(s) ==
  /\ InUse(s)
  /\ heap' = heap \ UNION {entries[s][i].owned : i \in DOMAIN entries[s]}
  /\ freedTwice' = (freedTwice \/ \E i \in DOMAIN entries[s] :
                                    \/ ~ entries[s][i].owned \subseteq heap
                                    \/ \E j \in 1..i - 1 :
                                         entries[s][i].owned \cap entries[s][j].owned # {})
  /\ entries' = [entries EXCEPT ![s] = <<>>]
  /\ released' = released \cup {s}

(* Mutant: of several entries with a name, the last one is found. *)
LastWithName(s, name) ==
  LET found == {i \in DOMAIN entries[s] : entries[s][i].name = name}
  IN IF found = {} THEN NoEntry ELSE entries[s][CHOOSE i \in found : \A j \in found : i >= j]

FindByName(s, name) ==
  LET found == {i \in DOMAIN entries[s] : entries[s][i].name = name}
  IN IF found = {} THEN NoEntry ELSE entries[s][CHOOSE i \in found : \A j \in found : i <= j]

SchemaInit ==
  /\ entries = [s \in Schemas |-> <<>>]
  /\ released = {}
  /\ heap = {}
  /\ freedTwice = FALSE

SchemaNext ==
  \E s \in Schemas :
    \/ \E type \in Types, name \in EntryNames : AddNew(s, type, name)
    \/ \E other \in Schemas : AddAll(s, other)
    \/ Release(s)

SchemaSpec == SchemaInit /\ [][SchemaNext]_schemaVars

-----------------------------------------------------------------------------
(* Properties.                                                             *)

SchemaTypeOK ==
  /\ entries \in [Schemas -> Seq(Entry)]
  /\ released \subseteq Schemas
  /\ heap \subseteq Strings
  /\ freedTwice \in BOOLEAN

Owned(s) == UNION {entries[s][i].owned : i \in DOMAIN entries[s]}

(***************************************************************************)
(* In whatever order schemas are built from one another and released, no   *)
(* string is freed twice or used after it was freed, none belongs to two   *)
(* schemas, and what is on the heap belongs to a schema that is alive.     *)
(***************************************************************************)
StringsHaveOneOwner ==
  /\ ~freedTwice
  /\ heap = UNION {Owned(s) : s \in Schemas}
  /\ \A s, t \in Schemas : s # t => Owned(s) \cap Owned(t) = {}

(***************************************************************************)
(* What FindByName has returned stays what it returns until the schema is  *)
(* released, also when another schema brings an entry with the same name.  *)
(***************************************************************************)
FoundStaysFound ==
  [][\A s \in Schemas \ released', name \in EntryNames :
       FindByName(s, name) # NoEntry => FindByName(s, name)' = FindByName(s, name)]_schemaVars

=============================================================================
