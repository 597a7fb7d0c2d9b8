---------------------- MODULE ControllerRuntimeProofs ----------------------
(***************************************************************************)
(* Facts about the steps of ControllerRuntime, for the proofs about the    *)
(* reconcilers: what each step does to the set of versions of a CR and to  *)
(* the newest one, that RuntimeInv survives it, and that it is a step of   *)
(* Binding or changes no binding, and that no CR waiting for a run is left *)
(* without one.                                                            *)
(***************************************************************************)
EXTENDS ControllerRuntime, TLAPS

(* The newest version and the cached one are versions, and versions are    *)
(* objects.                                                                *)
LEMMA VersionsOfCR ==
    ASSUME RuntimeTypeOK, NEW k \in CRs
    PROVE  /\ Objects(k) \subseteq Object
           /\ Latest(k) \in Objects(k)
           /\ Cached(k) \in Objects(k)
  <1>1. versions[k] \in Seq(Object) /\ Len(versions[k]) \in Nat \ {0}
    BY DEF RuntimeTypeOK
  <1> QED BY <1>1 DEF Objects, Latest, Cached

(* A CR that does not exist is an object. *)
LEMMA NoObjectType == NoObject \in Object /\ NoObject.live = FALSE
  BY DEF NoObject, Object, NoStatus, Status

(* An API write adds one version, the newest, under a resourceVersion that *)
(* no version and no reconciler holds.                                     *)
LEMMA WriteEffect ==
    ASSUME RuntimeTypeOK, NEW k \in CRs, NEW o \in Object, Write(k, o)
    PROVE  \E rv \in RVs \ HeldVersions(k) :
               LET n == [o EXCEPT !.rv = rv] IN
               /\ n \in Object
               /\ versions'[k] = Append(versions[k], n)
               /\ Objects(k)' = Objects(k) \cup {n}
               /\ Latest(k)' = n
               /\ \A c \in CRs \ {k} : versions'[c] = versions[c]
               /\ versions' \in [CRs -> Seq(Object)]
               /\ \A c \in CRs : versions'[c] # <<>>
  <1> DEFINE rv == NextVersion(k)
             n == [o EXCEPT !.rv = rv]
  <1>1. rv \in RVs \ HeldVersions(k)
        /\ versions' = [versions EXCEPT ![k] = Append(@, n)]
    BY DEF Write
  <1> HIDE DEF rv
  <1>2. n \in Object
    BY <1>1 DEF Object
  <1>3. versions[k] \in Seq(Object) /\ Len(versions[k]) \in Nat
    BY DEF RuntimeTypeOK
  <1>4. versions'[k] = Append(versions[k], n)
    BY <1>1 DEF RuntimeTypeOK
  <1> HIDE DEF n
  <1>5. /\ Len(versions'[k]) = Len(versions[k]) + 1
        /\ \A i \in 1..Len(versions[k]) : versions'[k][i] = versions[k][i]
        /\ versions'[k][Len(versions[k]) + 1] = n
        /\ versions'[k] \in Seq(Object)
    BY <1>2, <1>3, <1>4
  <1>6. Latest(k)' = n
    BY <1>5 DEF Latest
  <1>7. Objects(k)' = Objects(k) \cup {n}
    <2>1. DOMAIN versions'[k] = 1..(Len(versions[k]) + 1)
          /\ DOMAIN versions[k] = 1..Len(versions[k])
      BY <1>3, <1>5
    <2>2. Objects(k)' = {versions'[k][i] : i \in 1..(Len(versions[k]) + 1)}
          /\ Objects(k) = {versions[k][i] : i \in 1..Len(versions[k])}
      BY <2>1 DEF Objects
    <2>3. ASSUME NEW p \in Objects(k)' PROVE p \in Objects(k) \cup {n}
      <3>1. PICK i \in 1..(Len(versions[k]) + 1) : p = versions'[k][i]
        BY <2>2, <2>3
      <3>2. CASE i = Len(versions[k]) + 1
        BY <3>1, <3>2, <1>5
      <3>3. CASE i \in 1..Len(versions[k])
        BY <3>1, <3>3, <2>2, <1>5
      <3> QED BY <3>2, <3>3, <1>3
    <2>4. n \in Objects(k)'
      BY <2>2, <1>3, <1>5
    <2>5. ASSUME NEW p \in Objects(k) PROVE p \in Objects(k)'
      <3>1. PICK i \in 1..Len(versions[k]) : p = versions[k][i]
        BY <2>2, <2>5
      <3>2. i \in 1..(Len(versions[k]) + 1) /\ p = versions'[k][i]
        BY <3>1, <1>3, <1>5
      <3> QED BY <3>2, <2>2
    <2> QED BY <2>3, <2>4, <2>5
  <1>8. \A c \in CRs \ {k} : versions'[c] = versions[c]
    BY <1>1 DEF RuntimeTypeOK
  <1>9. versions' \in [CRs -> Seq(Object)] /\ \A c \in CRs : versions'[c] # <<>>
    <2>1. versions'[k] # <<>>
      BY <1>3, <1>5
    <2> QED BY <1>1, <1>2, <1>8, <2>1 DEF RuntimeTypeOK
  <1> QED BY <1>1, <1>2, <1>4, <1>6, <1>7, <1>8, <1>9 DEF n

(* A delivery by the watch drops the cached version and no other.          *)
LEMMA WatchEffect ==
    ASSUME RuntimeTypeOK, NEW k \in CRs, WatchEvent(k)
    PROVE  /\ Objects(k)' \subseteq Objects(k)
           /\ Latest(k)' = Latest(k)
           /\ \A c \in CRs \ {k} : versions'[c] = versions[c]
           /\ versions' \in [CRs -> Seq(Object)]
           /\ \A c \in CRs : versions'[c] # <<>>
  <1>1. versions[k] \in Seq(Object) /\ Len(versions[k]) \in Nat /\ Len(versions[k]) > 1
    BY DEF RuntimeTypeOK, WatchEvent
  <1>2. versions'[k] = Tail(versions[k])
    BY DEF RuntimeTypeOK, WatchEvent
  <1>3. /\ Len(versions'[k]) = Len(versions[k]) - 1
        /\ \A i \in 1..(Len(versions[k]) - 1) : versions'[k][i] = versions[k][i + 1]
        /\ versions'[k] \in Seq(Object)
    BY <1>1, <1>2
  <1>4. Latest(k)' = Latest(k)
    BY <1>1, <1>3 DEF Latest
  <1>5. Objects(k)' \subseteq Objects(k)
    BY <1>1, <1>3 DEF Objects
  <1>6. \A c \in CRs \ {k} : versions'[c] = versions[c]
    BY DEF RuntimeTypeOK, WatchEvent
  <1>7. versions' \in [CRs -> Seq(Object)] /\ \A c \in CRs : versions'[c] # <<>>
    <2>1. versions'[k] # <<>>
      BY <1>1, <1>3
    <2> QED BY <1>3, <1>6, <2>1 DEF RuntimeTypeOK, WatchEvent
  <1> QED BY <1>4, <1>5, <1>6, <1>7

(* A restart leaves the newest version of every CR.                        *)
LEMMA RestartEffect ==
    ASSUME RuntimeTypeOK, Restart
    PROVE  /\ \A k \in CRs : Objects(k)' = {Latest(k)} /\ Latest(k)' = Latest(k)
           /\ versions' \in [CRs -> Seq(Object)]
           /\ \A k \in CRs : versions'[k] # <<>>
  <1>1. \A k \in CRs : versions'[k] = <<Latest(k)>>
    BY DEF Restart
  <1>2. \A k \in CRs : Latest(k) \in Object
    BY VersionsOfCR
  <1>3. ASSUME NEW k \in CRs
        PROVE  /\ Objects(k)' = {Latest(k)} /\ Latest(k)' = Latest(k)
               /\ versions'[k] \in Seq(Object) /\ versions'[k] # <<>>
    <2>1. versions'[k] = <<Latest(k)>> /\ Latest(k) \in Object
      BY <1>1, <1>2, <1>3
    <2>2. /\ Len(versions'[k]) = 1 /\ DOMAIN versions'[k] = {1}
          /\ versions'[k][1] = Latest(k)
          /\ versions'[k] \in Seq(Object) /\ versions'[k] # <<>>
      BY <2>1
    <2>3. Latest(k)' = versions'[k][Len(versions'[k])]
      BY DEF Latest
    <2>4. Objects(k)' = {versions'[k][i] : i \in {1}}
      BY <2>2 DEF Objects
    <2> QED BY <2>2, <2>3, <2>4
  <1>4. versions' \in [CRs -> Seq(Object)]
    BY <1>2 DEF Restart
  <1> QED BY <1>3, <1>4

-----------------------------------------------------------------------------
(* RuntimeInv without what it says of the running reconciler.              *)
VersionsInv ==
    /\ versions \in [CRs -> Seq(Object)]
    /\ \A k \in CRs : versions[k] # <<>>
    /\ \A k \in CRs : \A o \in Objects(k) : o.live => o.spec \in Specs
    /\ \A k \in CRs : \A o1, o2 \in Objects(k) : o1.rv = o2.rv => o1 = o2

(* A step that brings no identifier into a CR that it did not have.        *)
NoNewIds ==
    \A c \in CRs : \A n \in Objects(c)' :
        n.status.id = None \/ \E o \in Objects(c) : o.status.id = n.status.id

(* A step after which a CR has the identifier it had, or none.             *)
IdsStay ==
    \A c \in CRs : Latest(c)'.status.id \in {Latest(c).status.id, None}

(* A step that brings no version under the resourceVersion a run holds.    *)
CopyStays ==
    pc # "idle" => \A p \in Objects(key)' : p.rv = cr.rv => p \in Objects(key)

(* A step of Binding with shareable objects, or a stuttering step of it.   *)
BindingStep == [Sharing!Next]_<<Living, Bound>>

(* CRs that stay as they are keep their bindings. *)
LEMMA SameBinding ==
    ASSUME \A c \in CRs : /\ Latest(c)'.live = Latest(c).live
                          /\ Latest(c)'.status.id = Latest(c).status.id
    PROVE  BindingStep
  <1>1. Living' = Living
    BY DEF Living
  <1>2. Bound' = Bound
    BY DEF Bound
  <1> QED BY <1>1, <1>2 DEF BindingStep

(* A step that touches one CR: it creates or deletes the CR, or binds it   *)
(* for the first time, or keeps its binding.                               *)
LEMMA OneBinding ==
    ASSUME NEW k \in CRs,
           \A c \in CRs \ {k} : Latest(c)' = Latest(c),
           Latest(k).live \in BOOLEAN, Latest(k)'.live \in BOOLEAN,
           Latest(k)'.status.id \in Ids \cup {None},
           \/ /\ Latest(k)'.live # Latest(k).live
              /\ Latest(k)'.status.id = None
           \/ /\ Latest(k)'.live = Latest(k).live
              /\ \/ Latest(k)'.status.id = Latest(k).status.id
                 \/ Latest(k).live /\ Latest(k).status.id = None
    PROVE  BindingStep
  <1>1. \A id : Latest(k)'.status.id = id => Bound' = [Bound EXCEPT ![k] = id]
    BY DEF Bound
  <1> DEFINE live(c) == Latest(c).live
  <1>2. /\ Living = {c \in CRs : live(c)} /\ Living' = {c \in CRs : live(c)'}
        /\ \A c \in CRs \ {k} : live(c)' = live(c)
        /\ live(k) \in BOOLEAN /\ live(k)' \in BOOLEAN
    BY DEF Living
  <1>3. CASE Latest(k)'.live # Latest(k).live /\ Latest(k)'.status.id = None
    <2>1. CASE Latest(k).live
      <3>1. k \in Living /\ Living' = Living \ {k}
        <4>1. live(k) /\ ~live(k)'
          BY <1>3, <1>2, <2>1
        <4> HIDE DEF live
        <4> QED BY <1>2, <4>1
      <3>2. Sharing!Delete(k)
        BY <1>1, <1>3, <3>1 DEF Sharing!Delete
      <3> QED BY <3>2 DEF BindingStep, Sharing!Next
    <2>2. CASE ~Latest(k).live
      <3>1. k \notin Living /\ Living' = Living \cup {k}
        <4>1. ~live(k) /\ live(k)'
          BY <1>3, <1>2, <2>2
        <4> HIDE DEF live
        <4> QED BY <1>2, <4>1
      <3>2. Sharing!Create(k)
        BY <1>1, <1>3, <3>1 DEF Sharing!Create
      <3> QED BY <3>2 DEF BindingStep, Sharing!Next
    <2> QED BY <2>1, <2>2
  <1>4. CASE /\ Latest(k)'.live = Latest(k).live
             /\ Latest(k)'.status.id = Latest(k).status.id
    BY <1>4, SameBinding
  <1>5. CASE /\ Latest(k)'.live = Latest(k).live
             /\ Latest(k).live /\ Latest(k).status.id = None
             /\ Latest(k)'.status.id # None
    <2>1. k \in Living /\ Living' = Living /\ Bound[k] = None
      <3>1. live(k) /\ live(k)' /\ Bound[k] = None
        BY <1>5 DEF Bound
      <3> HIDE DEF live
      <3> QED BY <1>2, <3>1
    <2>2. Latest(k)'.status.id \in Ids
      BY <1>5
    <2>3. Sharing!Bind(k, Latest(k)'.status.id)
      BY <1>1, <2>1, <2>2 DEF Sharing!Bind
    <2> QED BY <2>2, <2>3 DEF BindingStep, Sharing!Next
  <1> QED BY <1>3, <1>4, <1>5

(* Steps that leave everybody covered who was, and that keep the changes   *)
(* which will pass the event filter.                                       *)
StaysCovered == \A c \in CRs : Covered(c) => Covered(c)'

NoticesKept == \A c \in CRs : Noticed(c) => Noticed(c)'

(* A CR that exists after a step is covered if it was covered or did not   *)
(* exist.                                                                  *)
NeverDropped ==
    \A c \in CRs :
        Latest(c)'.live /\ (Covered(c) \/ ~Latest(c).live) => Covered(c)'

(* Only the worker ends a run, so it must see to the key itself.           *)
LEMMA OutsideCovers ==
    ASSUME NoticesKept, UNCHANGED <<queue, timers, key>>
    PROVE  StaysCovered
  <1>1. \A c \in CRs : Covered(c) <=> c \in queue \cup timers \/ key = c \/ Noticed(c)
    BY DEF Covered
  <1>2. \A c \in CRs :
           Covered(c)' <=> c \in queue' \cup timers' \/ key' = c \/ Noticed(c)'
    BY DEF Covered
  <1> QED BY <1>1, <1>2 DEF StaysCovered, NoticesKept

(* So does one that ends with a requeue: the timer of its CR is set.      *)
LEMMA RequeueCovers ==
    ASSUME NoticesKept, UNCHANGED queue, ReturnRequeue
    PROVE  StaysCovered
  <1>1. \A c \in CRs : Covered(c) <=> c \in queue \cup timers \/ key = c \/ Noticed(c)
    BY DEF Covered
  <1>2. \A c \in CRs :
           Covered(c)' <=> c \in queue' \cup timers' \/ key' = c \/ Noticed(c)'
    BY DEF Covered
  <1> QED BY <1>1, <1>2 DEF StaysCovered, NoticesKept, ReturnRequeue

(* Versions that do not change keep their notices.                         *)
LEMMA SameNotices ==
    ASSUME NEW c \in CRs, versions'[c] = versions[c]
    PROVE  Noticed(c)' <=> Noticed(c)
  BY DEF Noticed

(* A new version is noticed if it passes the filter, and hides no other.   *)
LEMMA AppendNotices ==
    ASSUME RuntimeTypeOK, NEW k \in CRs, NEW n \in Object,
           versions'[k] = Append(versions[k], n),
           \A c \in CRs \ {k} : versions'[c] = versions[c]
    PROVE  /\ NoticesKept
           /\ GenerationChangedPredicate(Latest(k), n) => Noticed(k)'
  <1>1. versions[k] \in Seq(Object) /\ Len(versions[k]) \in Nat \ {0}
    BY DEF RuntimeTypeOK
  <1>2. /\ Len(versions'[k]) = Len(versions[k]) + 1
        /\ \A i \in 1..Len(versions[k]) : versions'[k][i] = versions[k][i]
        /\ versions'[k][Len(versions[k]) + 1] = n
    BY <1>1
  <1>3. Noticed(k)' <=> \E i \in 1..Len(versions[k]) :
            GenerationChangedPredicate(versions'[k][i], versions'[k][i + 1])
    <2>1. Noticed(k)' <=> \E i \in 1..(Len(versions'[k]) - 1) :
              GenerationChangedPredicate(versions'[k][i], versions'[k][i + 1])
      BY DEF Noticed, GenerationChangedPredicate
    <2> QED BY <1>1, <1>2, <2>1
  <1>4. Noticed(k) => Noticed(k)'
    <2>1. SUFFICES ASSUME NEW i \in 1..(Len(versions[k]) - 1),
                          GenerationChangedPredicate(versions[k][i],
                                                     versions[k][i + 1])
                   PROVE  Noticed(k)'
      BY DEF Noticed
    <2>2. /\ i \in 1..Len(versions[k])
          /\ versions'[k][i] = versions[k][i]
          /\ versions'[k][i + 1] = versions[k][i + 1]
      BY <1>1, <1>2
    <2> QED BY <1>3, <2>1, <2>2
  <1>5. ASSUME GenerationChangedPredicate(Latest(k), n) PROVE Noticed(k)'
    <2> DEFINE i == Len(versions[k])
    <2>1. /\ i \in 1..Len(versions[k])
          /\ versions'[k][i] = Latest(k) /\ versions'[k][i + 1] = n
      BY <1>1, <1>2 DEF Latest
    <2> QED BY <1>3, <1>5, <2>1
  <1>6. \A c \in CRs \ {k} : Noticed(c) => Noticed(c)'
    BY SameNotices
  <1> QED BY <1>4, <1>5, <1>6 DEF NoticesKept

(* Versions that do not change keep their objects. *)
LEMMA SameVersions ==
    ASSUME NEW c \in CRs, versions'[c] = versions[c]
    PROVE  Objects(c)' = Objects(c) /\ Latest(c)' = Latest(c)
  BY DEF Objects, Latest

(* A write keeps the versions in order. *)
LEMMA WriteKeepsVersions ==
    ASSUME RuntimeInv, NEW k \in CRs, NEW o \in Object, Write(k, o),
           o.live => o.spec \in Specs
    PROVE  VersionsInv'
  <1>1. PICK rv \in RVs \ HeldVersions(k) :
               LET n == [o EXCEPT !.rv = rv] IN
               /\ n \in Object
               /\ Objects(k)' = Objects(k) \cup {n}
               /\ Latest(k)' = n
               /\ \A c \in CRs \ {k} : versions'[c] = versions[c]
               /\ versions' \in [CRs -> Seq(Object)]
               /\ \A c \in CRs : versions'[c] # <<>>
    BY WriteEffect DEF RuntimeInv
  <1> DEFINE n == [o EXCEPT !.rv = rv]
  <1>2. n.rv = rv /\ n.live = o.live /\ n.spec = o.spec
    BY DEF Object
  <1>3. \A p \in Objects(k) : p.rv # rv
    BY DEF HeldVersions, Objects
  <1> HIDE DEF n
  <1>4. Objects(k)' = Objects(k) \cup {n}
    BY <1>1 DEF n
  <1>5. ASSUME NEW c \in CRs
        PROVE  /\ \A p \in Objects(c)' : p.live => p.spec \in Specs
               /\ \A p, q \in Objects(c)' : p.rv = q.rv => p = q
    <2>1. CASE c = k
      BY <2>1, <1>2, <1>3, <1>4 DEF RuntimeInv
    <2>2. CASE c # k
      <3>1. Objects(c)' = Objects(c)
        BY <2>2, <1>1, SameVersions
      <3> QED BY <3>1 DEF RuntimeInv
    <2> QED BY <2>1, <2>2
  <1> QED BY <1>1, <1>5 DEF VersionsInv

(* A changed spec leaves an object with the same status. *)
LEMMA EditedObject ==
    ASSUME NEW old \in Object, NEW s \in Specs
    PROVE  LET o == [old EXCEPT !.gen = @ + 1, !.spec = s]
           IN  /\ o \in Object /\ o.spec = s /\ o.gen # old.gen
               /\ o.status = old.status /\ o.live = old.live
  <1>1. old.gen + 1 \in Nat /\ old.gen + 1 # old.gen
    BY DEF Object
  <1> QED BY <1>1 DEF Object

(* Users' edits. *)
LEMMA UserStep ==
    ASSUME RuntimeInv, NEW k \in CRs,
           (\E s \in Specs : ApplyCR(k, s)) \/ DeleteCR(k)
    PROVE  /\ RuntimeInv' /\ NoNewIds /\ IdsStay /\ BindingStep /\ NeverDropped
           /\ CopyStays
           /\ CopyKeepsBinding => CopyKeepsBinding'
  <1>1. /\ UNCHANGED <<queue, timers, pc, key, cr>>
        /\ budget' \in [Expenses -> Nat]
    <2>1. Spend("edits")
      BY DEF ApplyCR, DeleteCR
    <2>2. budget' \in [Expenses -> Nat]
      BY <2>1 DEF Spend, RuntimeInv, RuntimeTypeOK, Expenses
    <2> QED BY <2>2 DEF ApplyCR, DeleteCR
  <1>2. PICK o \in Object :
               /\ Write(k, o)
               /\ o.live => o.spec \in Specs
               /\ GenerationChangedPredicate(Latest(k), o)
               /\ \/ o.status = Latest(k).status /\ o.live = Latest(k).live
                  \/ o.status.id = None /\ o.live # Latest(k).live
    <2>1. Latest(k) \in Object
      BY VersionsOfCR DEF RuntimeInv
    <2>2. /\ NoObject \in Object /\ NoObject.status.id = None
          /\ NoObject.live = FALSE
      BY NoObjectType DEF NoObject, NoStatus
    <2>3. CASE DeleteCR(k)
      BY <2>2, <2>3 DEF DeleteCR, GenerationChangedPredicate
    <2>4. ASSUME NEW s \in Specs, ApplyCR(k, s)
          PROVE  \E o \in Object :
                    /\ Write(k, o)
                    /\ o.live => o.spec \in Specs
                    /\ GenerationChangedPredicate(Latest(k), o)
                    /\ \/ o.status = Latest(k).status /\ o.live = Latest(k).live
                       \/ o.status.id = None /\ o.live # Latest(k).live
      <3>1. CASE Latest(k).live
        <4> DEFINE o == [Latest(k) EXCEPT !.gen = @ + 1, !.spec = s]
        <4>1. Write(k, o)
          BY <2>4, <3>1 DEF ApplyCR
        <4>2. /\ o \in Object /\ o.spec = s /\ o.gen # Latest(k).gen
              /\ o.status = Latest(k).status /\ o.live = Latest(k).live
          BY <2>1, EditedObject
        <4> QED BY <4>1, <4>2 DEF GenerationChangedPredicate
      <3>2. CASE ~Latest(k).live
        <4> DEFINE o == [NoObject EXCEPT !.live = TRUE, !.gen = 1, !.spec = s]
        <4>1. Write(k, o)
          BY <2>4, <3>2 DEF ApplyCR
        <4>2. o \in Object /\ o.spec = s /\ o.status.id = None /\ o.live
          BY <2>2 DEF Object, NoObject, NoStatus
        <4> QED BY <4>1, <4>2, <3>2 DEF GenerationChangedPredicate
      <3> QED BY <3>1, <3>2
    <2> QED BY <2>3, <2>4
  <1>3. VersionsInv'
    BY <1>2, WriteKeepsVersions
  <1>4. PICK rv \in RVs \ HeldVersions(k) :
               LET n == [o EXCEPT !.rv = rv] IN
               /\ n \in Object
               /\ versions'[k] = Append(versions[k], n)
               /\ Objects(k)' = Objects(k) \cup {n}
               /\ Latest(k)' = n
               /\ \A c \in CRs \ {k} : versions'[c] = versions[c]
    BY <1>2, WriteEffect DEF RuntimeInv
  <1> DEFINE n == [o EXCEPT !.rv = rv]
  <1>5. n.rv = rv /\ n.status = o.status /\ n.live = o.live /\ n.gen = o.gen
    BY DEF Object
  <1>6. rv # cr.rv
    BY DEF HeldVersions
  <1> HIDE DEF n
  <1>7. /\ Objects(k)' = Objects(k) \cup {n} /\ Latest(k)' = n
        /\ versions'[k] = Append(versions[k], n) /\ n \in Object
    BY <1>4 DEF n
  <1>8. \A c \in CRs \ {k} : Objects(c)' = Objects(c) /\ Latest(c)' = Latest(c)
    BY <1>4, SameVersions
  <1>9. ASSUME pc # "idle"
         PROVE  \A p \in Objects(key)' : p.rv = cr.rv => p \in Objects(key)
    <2>1. SUFFICES ASSUME NEW p \in Objects(key)', p.rv = cr.rv
                   PROVE  p \in Objects(key)
      OBVIOUS
    <2>2. key \in CRs /\ key' = key
      BY <1>1, <1>9 DEF RuntimeInv
    <2>3. CASE key = k
      <3>1. Objects(key)' = Objects(k)'
        BY <2>3, <1>1 DEF Objects
      <3> QED BY <3>1, <2>3, <2>1, <1>5, <1>6, <1>7
    <2>4. CASE key # k
      <3>1. Objects(key)' = Objects(key)
        BY <1>1, <2>2, <2>4, <1>8 DEF Objects
      <3> QED BY <3>1, <2>1
    <2> QED BY <2>3, <2>4
  <1>10. RuntimeInv' /\ (CopyKeepsBinding => CopyKeepsBinding')
    <2>1. CopyKeepsBinding => CopyKeepsBinding'
      BY <1>1, <1>9 DEF CopyKeepsBinding
    <2>2. pc # "idle" =>
             \A p \in Objects(key)' : p.rv = cr.rv => p.spec = cr.spec
      BY <1>9 DEF RuntimeInv
    <2>3. pc' # "idle" => (\A p \in Objects(key) : p.rv = cr.rv => p.spec = cr.spec)'
      BY <1>1, <2>2
    <2>4. RuntimeTypeOK' /\ IF pc' = "idle" THEN key' = None
                           ELSE key' \in CRs /\ cr'.spec \in Specs
      BY <1>1, <1>3 DEF RuntimeInv, RuntimeTypeOK, VersionsInv
    <2> QED BY <1>3, <2>1, <2>3, <2>4 DEF RuntimeInv, VersionsInv
  <1>11. Latest(k) \in Objects(k)
    BY VersionsOfCR DEF RuntimeInv
  <1>12. NoNewIds /\ IdsStay
    BY <1>2, <1>5, <1>7, <1>8, <1>11 DEF NoNewIds, IdsStay
  <1>13. BindingStep
    <2>1. o.live \in BOOLEAN /\ o.status.id \in Ids \cup {None}
      BY DEF Object, Status
    <2>2. Latest(k).live \in BOOLEAN
      BY VersionsOfCR DEF RuntimeInv, Object
    <2> QED BY <1>2, <1>5, <1>7, <1>8, <2>1, <2>2, OneBinding
  <1>14. NeverDropped
    <2>1. NoticesKept /\ Noticed(k)'
      BY <1>2, <1>4, <1>5, <1>7, AppendNotices
         DEF GenerationChangedPredicate, RuntimeInv
    <2>2. StaysCovered
      BY <1>1, <2>1, OutsideCovers
    <2> QED BY <1>8, <2>1, <2>2 DEF NeverDropped, StaysCovered, Covered
  <1>15. CopyStays
    BY <1>9 DEF CopyStays
  <1> QED BY <1>10, <1>12, <1>13, <1>14, <1>15

(* The watch brings a CR into the queue when the change it delivers passes *)
(* the filter.                                                             *)
LEMMA WatchCovers ==
    ASSUME RuntimeTypeOK, NEW k \in CRs, WatchEvent(k)
    PROVE  StaysCovered
  <1>1. /\ versions[k] \in Seq(Object) /\ Len(versions[k]) \in Nat
        /\ Len(versions[k]) > 1 /\ versions'[k] = Tail(versions[k])
        /\ \A c \in CRs \ {k} : versions'[c] = versions[c]
    BY DEF RuntimeTypeOK, WatchEvent
  <1>2. UNCHANGED <<timers, key>> /\ queue \subseteq queue'
    BY DEF WatchEvent
  <1>3. ASSUME Noticed(k) PROVE k \in queue' \/ Noticed(k)'
    <2>1. PICK i \in 1..(Len(versions[k]) - 1) :
              GenerationChangedPredicate(versions[k][i], versions[k][i + 1])
      BY <1>3 DEF Noticed
    <2>2. CASE i = 1
      BY <1>1, <2>1, <2>2 DEF WatchEvent, Cached
    <2>3. CASE i # 1
      <3> DEFINE j == i - 1
      <3>1. /\ j \in 1..(Len(versions'[k]) - 1)
            /\ versions'[k][j] = versions[k][i]
            /\ versions'[k][j + 1] = versions[k][i + 1]
        BY <1>1, <2>3
      <3> QED BY <2>1, <3>1 DEF Noticed, GenerationChangedPredicate
    <2> QED BY <2>2, <2>3
  <1>4. \A c \in CRs \ {k} : Noticed(c) => Noticed(c)'
    BY <1>1, SameNotices
  <1> QED BY <1>2, <1>3, <1>4 DEF StaysCovered, Covered

(* The watch and the timers. *)
LEMMA RuntimeStep ==
    ASSUME RuntimeInv, NEW k \in CRs, WatchEvent(k) \/ Timer(k)
    PROVE  /\ RuntimeInv' /\ NoNewIds /\ BindingStep /\ NeverDropped
           /\ CopyStays
           /\ CopyKeepsBinding => CopyKeepsBinding'
           /\ \A c \in CRs : Latest(c)' = Latest(c)
  <1>1. /\ UNCHANGED <<pc, key, cr>> /\ queue' \subseteq CRs /\ timers' \subseteq CRs
        /\ budget' \in [Expenses -> Nat]
    <2>1. UNCHANGED budget \/ Spend("delays")
      BY DEF WatchEvent, Timer
    <2>2. budget' \in [Expenses -> Nat]
      BY <2>1 DEF Spend, RuntimeInv, RuntimeTypeOK, Expenses
    <2> QED BY <2>2 DEF WatchEvent, Timer, RuntimeInv, RuntimeTypeOK
  <1>2. /\ \A c \in CRs : Objects(c)' \subseteq Objects(c) /\ Latest(c)' = Latest(c)
        /\ versions' \in [CRs -> Seq(Object)]
        /\ \A c \in CRs : versions'[c] # <<>>
    <2>1. CASE WatchEvent(k)
      BY <2>1, WatchEffect, SameVersions DEF RuntimeInv
    <2>2. CASE Timer(k)
      BY <2>2, SameVersions DEF Timer, RuntimeInv, RuntimeTypeOK
    <2> QED BY <2>1, <2>2
  <1>3. RuntimeInv'
    BY <1>1, <1>2 DEF RuntimeInv, RuntimeTypeOK
  <1>4. CopyKeepsBinding => CopyKeepsBinding'
    <2>1. SUFFICES ASSUME CopyKeepsBinding,
                          pc # "idle", NEW p \in Objects(key)',
                          p.rv = cr.rv, p.status.id # None
                   PROVE  cr.status.id = p.status.id
      BY <1>1 DEF CopyKeepsBinding
    <2>2. p \in Objects(key)
      <3>1. key' = key /\ key \in CRs
        BY <1>1, <2>1 DEF RuntimeInv
      <3>2. Objects(key)' \subseteq Objects(key)
        BY <3>1, <1>2 DEF Objects
      <3> QED BY <3>2, <2>1
    <2> QED BY <2>1, <2>2 DEF CopyKeepsBinding
  <1>5. NoNewIds /\ BindingStep
    BY <1>2, SameBinding DEF NoNewIds
  <1>6. StaysCovered
    <2>1. CASE Timer(k)
      BY <2>1, SameNotices DEF Timer, StaysCovered, Covered
    <2>2. CASE WatchEvent(k)
      BY <2>2, WatchCovers DEF RuntimeInv
    <2> QED BY <2>1, <2>2
  <1>7. NeverDropped
    BY <1>2, <1>6 DEF NeverDropped, StaysCovered
  <1>8. CopyStays
    <2>1. SUFFICES ASSUME pc # "idle" PROVE Objects(key)' \subseteq Objects(key)
      BY DEF CopyStays
    <2>2. key' = key /\ key \in CRs
      BY <1>1, <2>1 DEF RuntimeInv
    <2> QED BY <1>2, <2>2 DEF Objects
  <1> QED BY <1>2, <1>3, <1>4, <1>5, <1>7, <1>8

(* The start of a run. *)
LEMMA GetStep ==
    ASSUME RuntimeInv, NEW k \in CRs, NEW first, Get(k, first),
           first # "idle"
    PROVE  /\ RuntimeInv' /\ NoNewIds /\ BindingStep /\ NeverDropped
           /\ CopyKeepsBinding => CopyKeepsBinding'
           /\ UNCHANGED versions
           /\ \/ UNCHANGED <<pc, key, cr>>
              \/ /\ pc' = first /\ key' = k
                 /\ cr' \in Objects(k) /\ cr'.spec \in Specs
  <1>1. /\ versions' = versions /\ UNCHANGED <<timers, budget>> /\ pc = "idle"
        /\ queue' \subseteq CRs
    BY DEF Get, RuntimeInv, RuntimeTypeOK
  <1>2. Cached(k) \in Objects(k) /\ Objects(k) \subseteq Object
    BY VersionsOfCR DEF RuntimeInv
  <1>3. \/ UNCHANGED <<pc, key, cr>>
        \/ /\ pc' = first /\ key' = k
           /\ cr' = Cached(k) /\ cr'.spec \in Specs
    BY <1>2 DEF Get, RuntimeInv
  <1>4. \A c \in CRs : Objects(c)' = Objects(c) /\ Latest(c)' = Latest(c)
    BY <1>1, SameVersions
  <1>5. RuntimeInv'
    BY <1>1, <1>2, <1>3, <1>4 DEF RuntimeInv, RuntimeTypeOK
  <1>6. CopyKeepsBinding => CopyKeepsBinding'
    <2>1. CASE UNCHANGED <<pc, key, cr>>
      BY <2>1, <1>1 DEF CopyKeepsBinding
    <2>2. CASE key' = k /\ cr' = Cached(k)
      <3>1. Objects(key)' = Objects(k)
        BY <2>2, <1>1 DEF Objects
      <3>2. \A o \in Objects(k) : o.rv = cr'.rv => o = cr'
        BY <2>2, <1>2 DEF RuntimeInv
      <3> QED BY <3>1, <3>2 DEF CopyKeepsBinding
    <2> QED BY <2>1, <2>2, <1>3
  <1>7. NoNewIds /\ BindingStep
    BY <1>4, SameBinding DEF NoNewIds
  <1>8. NeverDropped
    <2>1. SUFFICES ASSUME NEW c \in CRs, Latest(c).live, Covered(c)
                   PROVE  Covered(c)'
      BY <1>4 DEF NeverDropped
    <2>2. key = None /\ queue' = queue \ {k} /\ (Noticed(c) => Noticed(c)')
      BY <1>1, SameNotices DEF Get, RuntimeInv
    <2>3. CASE c # k
      BY <1>1, <2>1, <2>2, <2>3, RuntimeAssumption DEF Covered
    <2>4. CASE c = k /\ Cached(k).live
      BY <2>4 DEF Get, Covered
    <2>5. CASE c = k /\ ~Cached(k).live
      <3>1. versions[k] \in Seq(Object) /\ Len(versions[k]) \in Nat \ {0}
        BY DEF RuntimeInv, RuntimeTypeOK
      <3>2. Len(versions[k]) # 1
        BY <2>1, <2>5, <3>1 DEF Latest, Cached
      <3> DEFINE len == Len(versions[k])
      <3>3. 1 \in 1..(Len(versions[k]) - 1) /\ Cached(k) = versions[k][1]
        <4>1. len \in Nat \ {0} /\ len # 1 /\ Cached(k) = versions[k][1]
          BY <3>1, <3>2 DEF Cached
        <4> HIDE DEF len
        <4>2. 1 \in 1..(len - 1)
          BY <4>1
        <4> QED BY <4>1, <4>2 DEF len
      <3> QED BY <2>2, <2>5, <3>3 DEF Covered, Noticed, GenerationChangedPredicate
    <2> QED BY <2>3, <2>4, <2>5
  <1> QED BY <1>1, <1>2, <1>3, <1>5, <1>6, <1>7, <1>8

(* A restart of the manager. *)
LEMMA RestartStep ==
    ASSUME RuntimeInv, Restart
    PROVE  /\ RuntimeInv' /\ CopyKeepsBinding' /\ NoNewIds /\ BindingStep
           /\ pc' = "idle" /\ cr' = NoObject
           /\ \A c \in CRs : Latest(c)' = Latest(c)
           /\ \A c \in CRs : Latest(c).live => Covered(c)'
  <1>1. /\ queue' \subseteq CRs /\ timers' = {} /\ pc' = "idle"
        /\ key' = None /\ cr' = NoObject
    BY DEF Restart, Idle
  <1>2. budget' \in [Expenses -> Nat]
    <2>1. Spend("crashes")
      BY DEF Restart
    <2> QED BY <2>1 DEF Spend, RuntimeInv, RuntimeTypeOK, Expenses
  <1>3. /\ \A c \in CRs : Objects(c)' = {Latest(c)} /\ Latest(c)' = Latest(c)
        /\ versions' \in [CRs -> Seq(Object)]
        /\ \A c \in CRs : versions'[c] # <<>>
    BY RestartEffect DEF RuntimeInv
  <1>4. \A c \in CRs : Latest(c) \in Objects(c)
    BY VersionsOfCR DEF RuntimeInv
  <1>5. RuntimeInv'
    BY <1>1, <1>2, <1>3, <1>4, NoObjectType DEF RuntimeInv, RuntimeTypeOK
  <1>6. CopyKeepsBinding'
    BY <1>1 DEF CopyKeepsBinding
  <1>7. NoNewIds /\ BindingStep
    BY <1>3, <1>4, SameBinding DEF NoNewIds
  <1>8. \A c \in CRs : Latest(c).live => Covered(c)'
    BY DEF Restart, Covered
  <1> QED BY <1>1, <1>3, <1>5, <1>6, <1>7, <1>8

(* A status write puts the reconciler's status into the newest version, if *)
(* that is the version the reconciler has read.                            *)
LEMMA StoreStep ==
    ASSUME RuntimeInv, pc # "idle", StoreStatus, NEW k \in CRs, key = k
    PROVE  /\ VersionsInv' /\ NoticesKept
           /\ CopyKeepsBinding => BindingStep
           /\ \A c \in CRs \ {k} : Objects(c)' = Objects(c) /\ Latest(c)' = Latest(c)
           /\ Latest(k).live /\ Latest(k)'.live
           /\ Latest(k)'.status = cr.status
           /\ Latest(k).spec = cr.spec /\ Latest(k)'.spec = cr.spec
           /\ Latest(k)'.rv = NextVersion(k) /\ NextVersion(k) \in RVs
           /\ \A p \in Objects(k) : p.rv # NextVersion(k)
           /\ Objects(k)' = Objects(k) \cup {Latest(k)'}
  <1> DEFINE o == [Latest(k) EXCEPT !.status = cr.status]
             n == [o EXCEPT !.rv = NextVersion(k)]
  <1>1. /\ Write(k, o) /\ Latest(k).live /\ Latest(k).rv = cr.rv
        /\ NextVersion(k) \in RVs \ HeldVersions(k)
    BY DEF StoreStatus, StatusCurrent, Write
  <1>2. Latest(k) \in Objects(k) /\ Latest(k) \in Object /\ cr \in Object
    BY VersionsOfCR DEF RuntimeInv, RuntimeTypeOK
  <1>3. /\ o \in Object /\ o.status = cr.status
        /\ o.spec = Latest(k).spec /\ o.live = Latest(k).live
    BY <1>2 DEF Object
  <1>4. o.spec \in Specs
    BY <1>1, <1>2, <1>3 DEF RuntimeInv
  <1> HIDE DEF o
  <1>5. VersionsInv'
    BY <1>1, <1>3, <1>4, WriteKeepsVersions
  <1>6. PICK rv \in RVs \ HeldVersions(k) :
               LET w == [o EXCEPT !.rv = rv] IN
               /\ w \in Object
               /\ versions'[k] = Append(versions[k], w)
               /\ Objects(k)' = Objects(k) \cup {w}
               /\ Latest(k)' = w
               /\ \A c \in CRs \ {k} : versions'[c] = versions[c]
    BY <1>1, <1>3, WriteEffect DEF RuntimeInv
  <1> DEFINE w == [o EXCEPT !.rv = rv]
  <1>7. /\ w \in Object /\ w.status = cr.status /\ w.live /\ w.rv = rv
        /\ w.spec = Latest(k).spec
    BY <1>1, <1>3, <1>6 DEF Object
  <1>8. rv = NextVersion(k)
    <2>1. versions' = [versions EXCEPT ![k] = Append(@, n)]
      BY <1>1 DEF Write
    <2>2. versions'[k] = Append(versions[k], n)
      BY <2>1 DEF RuntimeInv, RuntimeTypeOK
    <2>3. n.rv = NextVersion(k) /\ n \in Object
      BY <1>1, <1>3 DEF Object
    <2> HIDE DEF n, w
    <2>4. Append(versions[k], n) = Append(versions[k], w)
      BY <1>6, <2>2 DEF w
    <2>5. versions[k] \in Seq(Object) /\ Len(versions[k]) \in Nat
      BY DEF RuntimeInv, RuntimeTypeOK
    <2>6. n = w
      BY <1>7, <2>3, <2>4, <2>5
    <2> QED BY <1>7, <2>3, <2>6
  <1> HIDE DEF w
  <1>9. /\ Objects(k)' = Objects(k) \cup {w} /\ Latest(k)' = w
        /\ versions'[k] = Append(versions[k], w)
    BY <1>6 DEF w
  <1>10. \A c \in CRs \ {k} : Objects(c)' = Objects(c) /\ Latest(c)' = Latest(c)
    BY <1>6, SameVersions
  <1>11. NoticesKept
    BY <1>6, <1>7, <1>9, AppendNotices DEF RuntimeInv
  <1>12. CopyKeepsBinding => BindingStep
    <2>1. Latest(k).live \in BOOLEAN /\ cr.status.id \in Ids \cup {None}
      BY <1>2 DEF Object, Status
    <2>2. /\ Latest(k).live /\ Latest(k)'.live
          /\ Latest(k)'.status.id = cr.status.id
      BY <1>1, <1>7, <1>9
    <2>3. CopyKeepsBinding /\ Latest(k).status.id # None
             => cr.status.id = Latest(k).status.id
      BY <1>1, <1>2 DEF CopyKeepsBinding
    <2> QED BY <1>10, <2>1, <2>2, <2>3, OneBinding
  <1>13. \A p \in Objects(k) : p.rv # NextVersion(k)
    BY <1>1 DEF HeldVersions, Objects
  <1>14. Latest(k).spec = cr.spec
    BY <1>1, <1>2 DEF RuntimeInv
  <1> QED BY <1>1, <1>5, <1>7, <1>8, <1>9, <1>10, <1>11, <1>12, <1>13, <1>14

(* The end of a run. *)
LEMMA ReturnStep ==
    ASSUME RuntimeInv, VersionsInv', Idle, UNCHANGED queue,
           timers' \subseteq CRs, budget' \in [Expenses -> Nat]
    PROVE  RuntimeInv' /\ CopyKeepsBinding'
  <1>1. pc' = "idle" /\ key' = None /\ cr' = NoObject /\ queue' = queue
    BY DEF Idle
  <1>2. RuntimeInv'
    BY <1>1, NoObjectType DEF RuntimeInv, RuntimeTypeOK, VersionsInv
  <1> QED BY <1>1, <1>2 DEF CopyKeepsBinding

(* A step that writes no version. *)
LEMMA NoWriteStep ==
    ASSUME RuntimeInv, UNCHANGED versions
    PROVE  /\ VersionsInv' /\ NoNewIds /\ BindingStep /\ NoticesKept
           /\ \A c \in CRs : Objects(c)' = Objects(c) /\ Latest(c)' = Latest(c)
  <1>1. \A c \in CRs : Objects(c)' = Objects(c) /\ Latest(c)' = Latest(c)
    BY DEF Objects, Latest
  <1>2. BindingStep
    BY <1>1, SameBinding
  <1>3. NoticesKept
    BY SameNotices DEF NoticesKept
  <1> QED BY <1>1, <1>2, <1>3 DEF RuntimeInv, RuntimeTypeOK, VersionsInv, NoNewIds

(* A step inside a run that writes no version, and changes its copy of the *)
(* CR in the status only.                                                  *)
LEMMA InnerStep ==
    ASSUME RuntimeInv, pc # "idle", pc' # "idle",
           UNCHANGED <<versions, queue, timers, key>>,
           budget' \in [Expenses -> Nat],
           cr' \in Object, cr'.rv = cr.rv, cr'.spec = cr.spec
    PROVE  /\ RuntimeInv' /\ BindingStep /\ NeverDropped
           /\ \A c \in CRs : Latest(c)' = Latest(c)
           /\ /\ CopyKeepsBinding
              /\ cr.status.id # None => cr'.status.id = cr.status.id
              => CopyKeepsBinding'
  <1>1. /\ VersionsInv' /\ BindingStep /\ NoticesKept
        /\ \A c \in CRs : Objects(c)' = Objects(c) /\ Latest(c)' = Latest(c)
    BY NoWriteStep
  <1>2. RuntimeInv'
    BY <1>1 DEF RuntimeInv, RuntimeTypeOK
  <1>3. Objects(key)' = Objects(key)
    BY DEF Objects
  <1>4. NeverDropped
    BY <1>1, OutsideCovers DEF NeverDropped, StaysCovered
  <1> QED BY <1>1, <1>2, <1>3, <1>4 DEF CopyKeepsBinding

(* A run that ends without a status write, and asks for another.           *)
LEMMA RequeueStep ==
    ASSUME RuntimeInv, pc # "idle", ReturnRequeue, UNCHANGED <<versions, queue>>,
           budget' \in [Expenses -> Nat]
    PROVE  /\ RuntimeInv' /\ CopyKeepsBinding' /\ BindingStep /\ NeverDropped
           /\ \A c \in CRs : Latest(c)' = Latest(c)
  <1>1. /\ VersionsInv' /\ BindingStep /\ NoticesKept
        /\ \A c \in CRs : Latest(c)' = Latest(c)
    BY NoWriteStep
  <1>2. Idle /\ timers' \subseteq CRs
    BY DEF ReturnRequeue, RuntimeInv, RuntimeTypeOK
  <1>3. RuntimeInv' /\ CopyKeepsBinding'
    BY <1>1, <1>2, ReturnStep
  <1>4. NeverDropped
    BY <1>1, RequeueCovers DEF NeverDropped, StaysCovered
  <1> QED BY <1>1, <1>3, <1>4

(* A run that ends with a status write, and asks for another.              *)
LEMMA StoreRequeueStep ==
    ASSUME RuntimeInv, pc # "idle", StoreStatus, ReturnRequeue, UNCHANGED queue,
           budget' \in [Expenses -> Nat]
    PROVE  /\ RuntimeInv' /\ CopyKeepsBinding' /\ NeverDropped
           /\ CopyKeepsBinding => BindingStep
  <1>1. PICK k \in CRs : key = k
    BY DEF RuntimeInv
  <1>2. /\ VersionsInv' /\ NoticesKept /\ (CopyKeepsBinding => BindingStep)
        /\ \A c \in CRs \ {k} : Latest(c)' = Latest(c)
        /\ Latest(k).live
    BY <1>1, StoreStep
  <1>3. Idle /\ timers' \subseteq CRs
    BY <1>1 DEF ReturnRequeue, RuntimeInv, RuntimeTypeOK
  <1>4. RuntimeInv' /\ CopyKeepsBinding'
    BY <1>2, <1>3, ReturnStep
  <1>5. NeverDropped
    BY <1>2, RequeueCovers DEF NeverDropped, StaysCovered
  <1> QED BY <1>2, <1>4, <1>5

(* A status write after which the run goes on with the stored object.      *)
LEMMA StoreGoOnStep ==
    ASSUME RuntimeInv, pc # "idle", pc' # "idle", StoreStatus,
           UNCHANGED <<queue, timers, key, budget>>,
           cr' = [cr EXCEPT !.rv = NextVersion(key)]
    PROVE  /\ RuntimeInv' /\ NeverDropped
           /\ cr'.status = cr.status /\ cr'.spec = cr.spec
           /\ CopyKeepsBinding => BindingStep /\ CopyKeepsBinding'
  <1>1. PICK k \in CRs : key = k
    BY DEF RuntimeInv
  <1>2. /\ VersionsInv' /\ NoticesKept /\ (CopyKeepsBinding => BindingStep)
        /\ \A c \in CRs \ {k} : Latest(c)' = Latest(c)
        /\ Latest(k).live /\ Latest(k)'.status = cr.status
        /\ Latest(k)'.spec = cr.spec /\ NextVersion(k) \in RVs
        /\ Latest(k)'.rv = NextVersion(k)
        /\ \A p \in Objects(k) : p.rv # NextVersion(k)
        /\ Objects(k)' = Objects(k) \cup {Latest(k)'}
    BY <1>1, StoreStep
  <1>3. /\ cr' \in Object /\ cr'.rv = NextVersion(k)
        /\ cr'.status = cr.status /\ cr'.spec = cr.spec
    BY <1>1, <1>2 DEF Object, RuntimeInv, RuntimeTypeOK
  <1>4. ASSUME NEW p \in Objects(key)', p.rv = cr'.rv
        PROVE  p.status = cr.status /\ p.spec = cr.spec
    <2>1. Objects(key)' = Objects(k)'
      BY <1>1 DEF Objects
    <2>2. p = Latest(k)'
      BY <1>2, <1>3, <1>4, <2>1
    <2> QED BY <1>2, <2>2
  <1>5. RuntimeInv' /\ CopyKeepsBinding'
    <2>1. RuntimeTypeOK' /\ IF pc' = "idle" THEN key' = None
                           ELSE key' \in CRs /\ cr'.spec \in Specs
      BY <1>2, <1>3 DEF RuntimeInv, RuntimeTypeOK, VersionsInv
    <2>2. (\A p \in Objects(key) : p.rv = cr.rv => p.spec = cr.spec)'
      BY <1>3, <1>4
    <2>3. CopyKeepsBinding'
      BY <1>3, <1>4 DEF CopyKeepsBinding
    <2> QED BY <1>2, <2>1, <2>2, <2>3 DEF RuntimeInv, VersionsInv
  <1>6. NeverDropped
    BY <1>2, OutsideCovers DEF NeverDropped, StaysCovered
  <1> QED BY <1>2, <1>3, <1>5, <1>6

(* A step of which the runtime notices no more than what it costs.         *)
LEMMA IdleStep ==
    ASSUME RuntimeInv, UNCHANGED <<versions, queue, timers, pc, key, cr>>,
           budget' \in [Expenses -> Nat]
    PROVE  /\ RuntimeInv' /\ BindingStep /\ NeverDropped
           /\ CopyKeepsBinding => CopyKeepsBinding'
  <1>1. /\ VersionsInv' /\ BindingStep /\ NoticesKept
        /\ \A c \in CRs : Objects(c)' = Objects(c) /\ Latest(c)' = Latest(c)
    BY NoWriteStep
  <1>2. RuntimeInv'
    BY <1>1 DEF RuntimeInv, RuntimeTypeOK
  <1>3. CopyKeepsBinding => CopyKeepsBinding'
    BY DEF CopyKeepsBinding, Objects
  <1>4. NeverDropped
    BY <1>1, OutsideCovers DEF NeverDropped, StaysCovered
  <1> QED BY <1>1, <1>2, <1>3, <1>4

(* Before the first CR is applied.                                         *)
LEMMA RuntimeInitInv ==
    ASSUME RuntimeInit
    PROVE  /\ RuntimeInv /\ CopyKeepsBinding /\ Sharing!Init
           /\ \A k \in CRs : ~Latest(k).live
  <1>1. /\ versions = [k \in CRs |-> <<NoObject>>] /\ queue = {} /\ timers = {}
        /\ budget = Budget /\ pc = "idle" /\ key = None /\ cr = NoObject
    BY DEF RuntimeInit
  <1>2. \A k \in CRs : versions[k] = <<NoObject>>
    BY <1>1
  <1>3. NoObject \in Object /\ NoObject.live = FALSE /\ NoObject.status.id = None
    BY NoObjectType DEF NoObject, NoStatus
  <1>4. \A k \in CRs : Objects(k) = {NoObject} /\ Latest(k) = NoObject
    BY <1>2 DEF Objects, Latest
  <1>5. RuntimeTypeOK
    BY <1>1, <1>2, <1>3, RuntimeAssumption DEF RuntimeTypeOK
  <1>6. RuntimeInv
    BY <1>1, <1>3, <1>4, <1>5 DEF RuntimeInv
  <1>7. CopyKeepsBinding
    BY <1>1 DEF CopyKeepsBinding
  <1>8. Sharing!Init
    BY <1>3, <1>4 DEF Sharing!Init, Living, Bound
  <1> QED BY <1>3, <1>4, <1>6, <1>7, <1>8

(* A CR that exists before and after a step of Binding stays bound.        *)
LEMMA BindingStays ==
    ASSUME BindingStep, NEW c \in CRs, Latest(c).live, Latest(c)'.live,
           Latest(c).status.id # None
    PROVE  Latest(c)'.status.id = Latest(c).status.id
  <1>1. c \in Living /\ c \in Living'
    BY DEF Living
  <1>2. Bound[c] = Latest(c).status.id /\ Bound'[c] = Latest(c)'.status.id
    BY DEF Bound
  <1>3. CASE UNCHANGED <<Living, Bound>>
    BY <1>2, <1>3
  <1>4. ASSUME NEW k \in CRs,
               \/ Sharing!Create(k) \/ Sharing!Delete(k)
               \/ \E id \in Ids : Sharing!Bind(k, id)
        PROVE  Bound'[c] = Bound[c]
    <2>1. k # c
      BY <1>1, <1>2, <1>4 DEF Sharing!Create, Sharing!Delete, Sharing!Bind
    <2> QED BY <1>4, <2>1 DEF Sharing!Create, Sharing!Delete, Sharing!Bind, Bound
  <1> QED BY <1>2, <1>3, <1>4 DEF BindingStep, Sharing!Next

(* What covers a CR makes the worker look at it.                           *)
LEMMA CoveredIsScheduled ==
    ASSUME RuntimeTypeOK, NEW k \in CRs, Covered(k)
    PROVE  Scheduled(k)
  <1>1. Len(versions[k]) \in Nat
    BY DEF RuntimeTypeOK
  <1> QED BY <1>1 DEF Covered, Noticed, Scheduled

(* Spending keeps the type of the budget. *)
LEMMA SpendType ==
    ASSUME RuntimeInv, NEW what \in Expenses, Spend(what)
    PROVE  budget' \in [Expenses -> Nat]
  BY DEF Spend, RuntimeInv, RuntimeTypeOK

=============================================================================
