----------------------------- MODULE Container -----------------------------
(***************************************************************************)
(* The bean container and the lifecycle's list of components               *)
(* (pkg/bear/ioc.go, lifecycle.go).                                        *)
(*                                                                         *)
(* A bean is registered under its concrete type or under an interface.     *)
(* BeanFactory holds its lock while the lifecycle, under its own, decides  *)
(* whether registration is still open, lets the factory commit and then    *)
(* brings its list of components up to date, so an operation is one step   *)
(* that changes both or neither.                                           *)
(***************************************************************************)
EXTENDS Naturals, SequencesExt

CONSTANTS
  Instances, BeanTypes, Interfaces,
  TypeOf,       \* [Instances -> BeanTypes]
  Prestarted,   \* instances whose lifecyclePrestarted() is true
  NoBean,
  EntryLimit    \* bound on the entries when a component is added by hand

Keys == BeanTypes \cup Interfaces

ASSUME ContainerAssumption ==
  /\ BeanTypes \cap Interfaces = {}
  /\ TypeOf \in [Instances -> BeanTypes]
  /\ Prestarted \subseteq Instances
  /\ NoBean \notin Instances
  /\ IsFiniteSet(Instances)

VARIABLES
  strictBeans,  \* BeanFactory.strict
  beans,        \* BeanFactory.beans
  order,        \* BeanFactory.order
  concrete,     \* BeanFactory.concrete: the latest instance of a type
  conflicts,    \* BeanFactory.conflicts
  entries,      \* Lifecycle.components, with the keys each is registered by
  closed,       \* registration is sealed or the lifecycle has started
  halfSet       \* a batch panicked before it had set its last entry

containerVars == <<strictBeans, beans, order, concrete, conflicts, entries, closed, halfSet>>

Entry == [component : Instances, keys : SUBSET Keys, added : BOOLEAN,
          active : BOOLEAN, started : BOOLEAN]

ContainerTypeOK ==
  /\ beans \in [Keys -> Instances \cup {NoBean}]
  /\ order \in Seq(Keys)
  /\ concrete \in [BeanTypes -> Instances \cup {NoBean}]
  /\ conflicts \subseteq BeanTypes
  /\ entries \in Seq(Entry)
  /\ strictBeans \in BOOLEAN /\ closed \in BOOLEAN /\ halfSet \in BOOLEAN

ContainerInit ==
  /\ strictBeans \in BOOLEAN
  /\ beans = [k \in Keys |-> NoBean]
  /\ order = <<>>
  /\ concrete = [t \in BeanTypes |-> NoBean]
  /\ conflicts = {}
  /\ entries = <<>>
  /\ closed = FALSE /\ halfSet = FALSE

-----------------------------------------------------------------------------
(* The lifecycle's side *)

(* The entry that beanEntries has for k loses this key.                      *)
(* retireUnregisteredEntry: with no key left it is taken off the list, or    *)
(* only set inactive when it was started before it was registered.         *)
Retire(es, k) ==
  LET current == {e \in DOMAIN es : k \in es[e].keys}
      e == CHOOSE e \in current : TRUE
      left == es[e].keys \ {k}
  IN IF current = {} THEN es
     ELSE IF left = {} /\ ~es[e].started THEN RemoveAt(es, e)
     ELSE [es EXCEPT ![e].keys = left, ![e].active = @ /\ left # {}]

NewEntry(i, keys, added) ==
  [component |-> i, keys |-> keys, added |-> added, active |-> TRUE, started |-> i \in Prestarted]

SetEntryKeeping(es, k, i) == Append(es, NewEntry(i, {k}, FALSE))

(* setBeanLocked.  An entry made by Add has no map of keys, and writing to   *)
(* it panics: the bean is in the container and the entry has no key.       *)
Bind(es, k, i) ==
  LET found == {e \in DOMAIN es : es[e].component = i}
      first == CHOOSE e \in found : \A d \in found : e <= d
  IN IF found = {} THEN Append(es, NewEntry(i, {k}, FALSE))
     ELSE [es EXCEPT ![first].active = TRUE,
                     ![first].started = @ \/ i \in Prestarted,
                     ![first].keys = IF es[first].added THEN @ ELSE @ \cup {k}]

SetEntry(es, k, i) ==
  IF \E e \in DOMAIN es : k \in es[e].keys /\ es[e].component = i THEN es
  ELSE Bind(Retire(es, k), k, i)

-----------------------------------------------------------------------------
(* The container's side *)

(* registerLocked, for Set, TrySet and TrySetWithInterface: a different      *)
(* instance of a known type is refused by the Try forms of a strict factory *)
(* and otherwise replaces or joins the earlier one, marking a conflict.    *)
Conflicting(i) == concrete[TypeOf[i]] \notin {i, NoBean}

Registers(k, i, enforceStrict) ==
  /\ beans[k] # i
  /\ ~(Conflicting(i) /\ enforceStrict /\ strictBeans)
  /\ ~closed
  /\ beans' = [beans EXCEPT ![k] = i]
  /\ order' = IF beans[k] = NoBean THEN Append(order, k) ELSE order
  /\ concrete' = [concrete EXCEPT ![TypeOf[i]] = i]
  /\ conflicts' = conflicts \cup (IF Conflicting(i) THEN {TypeOf[i]} ELSE {})
  /\ entries' = SetEntry(entries, k, i)
  /\ UNCHANGED <<strictBeans, closed, halfSet>>

SetBean(i) == Registers(TypeOf[i], i, FALSE)
TrySetBean(i) == Registers(TypeOf[i], i, TRUE)
TrySetWithInterface(k, i) == Registers(k, i, TRUE)

(* trySetBatchStrict: all of the batch, or nothing when any of it is a       *)
(* different instance of a type that is known or in the batch already.     *)
BatchAccepted(S) ==
  /\ \A i \in S : beans[TypeOf[i]] \in {i, NoBean} /\ concrete[TypeOf[i]] \in {i, NoBean}
  /\ \A i, j \in S : TypeOf[i] = TypeOf[j] => i = j

BindPanics(i) == \E e \in DOMAIN entries :
  /\ entries[e].component = i /\ entries[e].added
  /\ \A d \in 1..e - 1 : entries[d].component # i

(* registerBeans: the entries of the batch are set one after the other, once *)
(* the container has taken all its beans.                                  *)
SetEntries(fresh) ==
  LET es[n \in 0..Len(fresh)] ==
        IF n = 0 THEN entries ELSE SetEntry(es[n - 1], TypeOf[fresh[n]], fresh[n])
  IN es

TrySetBatch(S) ==
  /\ BatchAccepted(S) /\ ~closed
  /\ LET new == {i \in S : beans[TypeOf[i]] = NoBean}
     IN \E fresh \in Bijection(1..Cardinality(new), new) : \* in the order of the batch
          \E last \in DOMAIN fresh :
            /\ \A n \in 1..last - 1 : ~BindPanics(fresh[n])
            /\ last = Len(fresh) \/ BindPanics(fresh[last])
            /\ order' = order \o [n \in DOMAIN fresh |-> TypeOf[fresh[n]]]
            /\ entries' = SetEntries(fresh)[last]
            /\ halfSet' = (halfSet \/ last < Len(fresh))
  /\ beans' = [k \in Keys |-> IF \E i \in S : TypeOf[i] = k
                                THEN CHOOSE i \in S : TypeOf[i] = k ELSE beans[k]]
  /\ concrete' = [t \in BeanTypes |-> IF \E i \in S : TypeOf[i] = t
                                        THEN CHOOSE i \in S : TypeOf[i] = t ELSE concrete[t]]
  /\ UNCHANGED <<strictBeans, conflicts, closed>>

(* TryRemove recomputes the types and conflicts from the beans that are left. *)
HoldsType(bs, k, t) == bs[k] # NoBean /\ TypeOf[bs[k]] = t
LastOfType(bs, os, t) == SelectLastInSeq(os, LAMBDA k : HoldsType(bs, k, t))

TryRemoveBean(k) ==
  /\ ~closed
  /\ beans' = [beans EXCEPT ![k] = NoBean]
  /\ order' = RemoveFirst(order, k)
  /\ concrete' = [t \in BeanTypes |-> LET n == LastOfType(beans', order', t)
                                     IN IF n = 0 THEN NoBean ELSE beans'[order'[n]]]
  /\ conflicts' = {t \in BeanTypes : \E m, n \in DOMAIN order' :
                      /\ HoldsType(beans', order'[m], t) /\ HoldsType(beans', order'[n], t)
                      /\ beans'[order'[m]] # beans'[order'[n]]}
  /\ entries' = Retire(entries, k)
  /\ UNCHANGED <<strictBeans, closed, halfSet>>

(* Lifecycle.TryAdd: a component that is no bean. *)
TryAddComponent(i) ==
  /\ ~closed
  /\ entries' = Append(entries, NewEntry(i, {}, TRUE))
  /\ UNCHANGED <<strictBeans, beans, order, concrete, conflicts, closed, halfSet>>

(* sealRegistration, or the start of the lifecycle. *)
ClosesContainer ==
  /\ ~closed
  /\ closed' = TRUE
  /\ UNCHANGED <<strictBeans, beans, order, concrete, conflicts, entries, halfSet>>

-----------------------------------------------------------------------------
ContainerNext ==
  \/ \E i \in Instances : SetBean(i) \/ TrySetBean(i)
  \/ \E k \in Interfaces, i \in Instances : TrySetWithInterface(k, i)
  \/ \E S \in SUBSET Instances : TrySetBatch(S)
  \/ \E k \in Keys : TryRemoveBean(k)
  \/ \E i \in Instances : Len(entries) < EntryLimit /\ TryAddComponent(i)
  \/ ClosesContainer

-----------------------------------------------------------------------------
BeanInstances == {beans[k] : k \in Keys} \ {NoBean}

(* The lifecycle starts and stops exactly the container's beans, each once,  *)
(* in order of first registration: every bean has one active entry, which   *)
(* knows the keys it is registered by; a replaced or removed bean has none; *)
(* only components that Add or TryAdd put there are extra.  A batch that      *)
(* panics half-way leaves beans without an entry.                          *)
ComponentsMatchBeans == ~halfSet =>
  /\ \A i \in BeanInstances :
       /\ \E e \in DOMAIN entries : entries[e].component = i /\ entries[e].active
       /\ (\A e \in DOMAIN entries : entries[e].component = i => ~entries[e].added) =>
            \E e \in DOMAIN entries : /\ entries[e].component = i
                                      /\ entries[e].keys = {k \in Keys : beans[k] = i}
  /\ \A e \in DOMAIN entries :
       \/ entries[e].added
       \/ entries[e].active <=> entries[e].component \in BeanInstances
  /\ \A d, e \in DOMAIN entries :
       entries[d].component = entries[e].component => d = e \/ entries[d].added \/ entries[e].added

(* A strict factory filled through the Try forms knows of every type the     *)
(* one instance that any of its keys holds.                                *)
OneInstancePerType ==
  conflicts = {} => \A k, l \in Keys :
    beans[k] # NoBean /\ beans[l] # NoBean /\ TypeOf[beans[k]] = TypeOf[beans[l]]
      => beans[k] = beans[l] /\ concrete[TypeOf[beans[k]]] = beans[k]

-----------------------------------------------------------------------------
(* The entries es of the lifecycle's list are those of the beans bs: an      *)
(* instance has one entry that is not of Add's making and comes before any  *)
(* that is, with exactly the keys that the instance is registered by.      *)
EntriesMatch(es, bs) ==
  /\ \A d, e \in DOMAIN es : es[d].component = es[e].component /\ ~es[e].added =>
       IF es[d].added THEN e < d ELSE d = e
  /\ \A e \in DOMAIN es :
       IF es[e].added THEN es[e].active /\ es[e].keys = {}
       ELSE /\ es[e].keys = {k \in Keys : bs[k] = es[e].component}
            /\ es[e].active <=> es[e].keys # {}
  /\ \A k \in Keys : bs[k] # NoBean => \E e \in DOMAIN es : es[e].component = bs[k]

(* A type that is in no conflict has one instance, and every key that holds  *)
(* a bean has its place in the order.                                      *)
TypesKnown ==
  /\ \A t \in BeanTypes : beans[t] # NoBean => TypeOf[beans[t]] = t
  /\ \A k \in Keys : beans[k] # NoBean /\ TypeOf[beans[k]] \notin conflicts =>
       beans[k] = concrete[TypeOf[beans[k]]]
  /\ \A k \in Keys : beans[k] # NoBean => k \in Range(order)

(* The invariant by which the container and the lifecycle's list agree.     *)
ContainerIInv == ContainerTypeOK /\ (~halfSet => EntriesMatch(entries, beans)) /\ TypesKnown
=============================================================================
