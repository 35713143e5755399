---------------------------- MODULE SecurityProofs ----------------------------
(***************************************************************************)
(* Proofs about ReplayTracker, for every window and every range of numbers *)
(* (the code: 128 by default and 0 .. 2^64 - 1); Keyring, for every set of *)
(* ids, suffixes and lifetimes; Authenticator, for every set of services,  *)
(* all TTLs and any number of challenges and sessions; and PolicyEngine,   *)
(* for all sets of actions, capabilities and evaluators.                   *)
(*                                                                         *)
(* ReplayTracker: at-most-once is inductive only together with the exact   *)
(* contents of seen and the place of the accepted numbers.                 *)
(*                                                                         *)
(* Keyring: LiveKeyInReach is inductive but for two facts about the map,   *)
(* which the pointers that Rotate moves might break: an entry is filed     *)
(* under names of its own id only (OwnName), and under one name at most    *)
(* (OneName).  Without the second, Revoke of a ".prev." name could stop a  *)
(* current key.                                                            *)
(*                                                                         *)
(* Authenticator: NonceTriedOnce and GrantMatchesChallenge are not         *)
(* inductive: one has to know that a pending nonce has not been tried yet  *)
(* (so that comparing it once is its first time), and that a nonce that    *)
(* earned a session has been (so that it is not pending any more and       *)
(* cannot earn another).                                                   *)
(*                                                                         *)
(* PolicyEngine: that an answer was in force at a moment of its call is    *)
(* not inductive: before it is given, it must be known that what the       *)
(* evaluator copied under the lock gives such an answer, and before that,  *)
(* that the tables themselves do.                                          *)
(***************************************************************************)
EXTENDS ReplayTracker, Keyring, Authenticator, PolicyEngine, TLAPS

(* An entry is filed under names of its own id, and under one at most; one *)
(* that is alive and was not displaced is the current one of its id.       *)
OwnName == \A n \in DOMAIN keys : entries[keys[n]].id = n[1]
OneName == \A n, o \in DOMAIN keys : keys[n] = keys[o] => n = o
InReach ==
    \A e \in DOMAIN entries :
        ~Dead(entries[e]) /\ e \notin displaced =>
            Current(entries[e].id) \in DOMAIN keys /\ keys[Current(entries[e].id)] = e

(* An entry that is not filed yet is not revoked. *)
Unrevoked == \A m \in Makers : making[m] # NoEntry => ~making[m].revoked

(* The inductive invariant of the keyring. *)
KInv == KeyringTypeOK /\ OwnName /\ OneName /\ InReach /\ Unrevoked

(* New() starts from an empty map, with nothing to reach. *)
LEMMA InitKInv == NewKeyring => KInv
  BY DEF NewKeyring, KInv, KeyringTypeOK, OwnName, OneName, InReach, Unrevoked

(* What Append does to a sequence of entries. *)
LEMMA AppendEffect ==
    ASSUME NEW s \in Seq(KeyEntry), NEW x \in KeyEntry
    PROVE  /\ Append(s, x) \in Seq(KeyEntry)
           /\ DOMAIN Append(s, x) = DOMAIN s \cup {Len(s) + 1} /\ Len(s) + 1 \notin DOMAIN s
           /\ Append(s, x)[Len(s) + 1] = x
           /\ \A e \in DOMAIN s : Append(s, x)[e] = s[e]
  OBVIOUS

(* An entry of the table has the fields of a KeyEntry. *)
LEMMA EntryTypes ==
    ASSUME KeyringTypeOK, NEW e \in DOMAIN entries
    PROVE  entries[e] \in KeyEntry /\ entries[e].id \in Ids /\ entries[e].expires \in Nat
  <1>1. entries[e] \in KeyEntry
    BY DEF KeyringTypeOK
  <1> QED BY <1>1 DEF KeyEntry

(* A name with a suffix is not the name of a current key. *)
LEMMA NamesDiffer ==
    ASSUME NEW id \in Ids, NEW other \in Ids, NEW suffix \in Suffixes
    PROVE  /\ Current(id) \in Names /\ <<other, suffix>> \in Names
           /\ Current(id) # <<other, suffix>>
           /\ Current(id)[1] = id /\ <<other, suffix>>[1] = other
           /\ Current(id) = Current(other) => id = other
  BY KeyringAssumption, Zenon DEF Current, Names

(* A new entry is well-formed and not dead at its own moment. *)
LEMMA EntryFresh ==
    ASSUME KeyringTypeOK, NEW id \in Ids, NEW ttl \in KeyTTLs
    PROVE  Entry(id, ttl) \in KeyEntry /\ ~Dead(Entry(id, ttl)) /\ Entry(id, ttl).id = id
  <1> DEFINE end == IF ttl > 0 THEN krNow + ttl ELSE 0
  <1>1. end \in Nat /\ (end = 0 \/ ~(krNow > end))
    <2>1. krNow \in Nat /\ ttl \in Nat
      BY KeyringAssumption, Zenon DEF KeyringTypeOK
    <2> QED BY <2>1
  <1>2. Entry(id, ttl) = [id |-> id, expires |-> end, revoked |-> FALSE]
    BY DEF Entry
  <1> HIDE DEF end
  <1>3. Entry(id, ttl) \in KeyEntry
    BY <1>1, <1>2 DEF KeyEntry
  <1>4. Entry(id, ttl).id = id /\ Entry(id, ttl).expires = end /\ ~Entry(id, ttl).revoked
    BY <1>2
  <1> QED BY <1>1, <1>3, <1>4 DEF Dead, Expired

(* What Rotate does to the entries: the current one of the id is revoked,  *)
(* and nothing else changes.                                               *)
LEMMA RetireEffect ==
    ASSUME KeyringTypeOK, NEW id \in Ids
    PROVE  /\ Retire(id) \in Seq(KeyEntry)
           /\ Len(Retire(id)) = Len(entries) /\ DOMAIN Retire(id) = DOMAIN entries
           /\ \A e \in DOMAIN entries :
                /\ Retire(id)[e] \in KeyEntry
                /\ Retire(id)[e].id = entries[e].id
                /\ Retire(id)[e].expires = entries[e].expires
                /\ Current(id) \in DOMAIN keys /\ e = keys[Current(id)] => Retire(id)[e].revoked
                /\ ~(Current(id) \in DOMAIN keys /\ e = keys[Current(id)]) =>
                      Retire(id)[e] = entries[e]
  <1>1. ASSUME Current(id) \in DOMAIN keys
        PROVE  keys[Current(id)] \in DOMAIN entries
    BY <1>1 DEF KeyringTypeOK
  <1>2. entries \in Seq(KeyEntry) /\ \A e \in DOMAIN entries : entries[e] \in KeyEntry
    BY DEF KeyringTypeOK
  <1>3. ASSUME Current(id) \notin DOMAIN keys
        PROVE  Retire(id) = entries
    BY <1>3 DEF Retire
  <1>4. ASSUME Current(id) \in DOMAIN keys
        PROVE  Retire(id) = [entries EXCEPT ![keys[Current(id)]] = [@ EXCEPT !.revoked = TRUE]]
    BY <1>4 DEF Retire
  <1>5. \A x \in KeyEntry :
          LET y == [x EXCEPT !.revoked = TRUE]
          IN  y \in KeyEntry /\ y.id = x.id /\ y.expires = x.expires /\ y.revoked
    BY Zenon DEF KeyEntry
  <1>6. CASE Current(id) \notin DOMAIN keys
    BY <1>2, <1>3, <1>6
  <1>7. CASE Current(id) \in DOMAIN keys
    <2> DEFINE k == keys[Current(id)]
               y == [entries[k] EXCEPT !.revoked = TRUE]
    <2>1. k \in DOMAIN entries /\ Retire(id) = [entries EXCEPT ![k] = y]
      BY <1>1, <1>4, <1>7
    <2>2. y \in KeyEntry /\ y.id = entries[k].id /\ y.expires = entries[k].expires /\ y.revoked
      BY <1>2, <1>5, <2>1
    <2> HIDE DEF y
    <2>3. /\ Retire(id) \in Seq(KeyEntry)
          /\ Len(Retire(id)) = Len(entries) /\ DOMAIN Retire(id) = DOMAIN entries
      BY <1>2, <2>1, <2>2
    <2> QED BY <1>2, <1>7, <2>1, <2>2, <2>3
  <1> QED BY <1>6, <1>7

(* What Rotate does to the map before it files the new key. *)
LEMMA MovedEffect ==
    ASSUME KInv, NEW id \in Ids, NEW suffix \in Suffixes
    PROVE  /\ DOMAIN Moved(id, suffix) \subseteq Names
           /\ Moved(id, suffix) \in [DOMAIN Moved(id, suffix) -> DOMAIN entries]
           /\ Current(id) \notin DOMAIN Moved(id, suffix)
           /\ \A n \in DOMAIN Moved(id, suffix) :
                \/ n \in DOMAIN keys /\ Moved(id, suffix)[n] = keys[n]
                \/ /\ n = <<id, suffix>> /\ Current(id) \in DOMAIN keys
                   /\ Moved(id, suffix)[n] = keys[Current(id)]
           /\ \A other \in Ids : other # id /\ Current(other) \in DOMAIN keys =>
                /\ Current(other) \in DOMAIN Moved(id, suffix)
                /\ Moved(id, suffix)[Current(other)] = keys[Current(other)]
  <1>1. ASSUME Current(id) \in DOMAIN keys
        PROVE  keys[Current(id)] \in DOMAIN entries
    BY <1>1 DEF KInv, KeyringTypeOK
  <1>2. /\ DOMAIN keys \subseteq Names
        /\ \A n \in DOMAIN keys : keys[n] \in DOMAIN entries
    BY DEF KInv, KeyringTypeOK
  <1>3. CASE Current(id) \notin DOMAIN keys
    BY <1>3 DEF Moved, KInv, KeyringTypeOK
  <1>4. CASE Current(id) \in DOMAIN keys
    <2> DEFINE name == <<id, suffix>>
               k == keys[Current(id)]
               dom == (DOMAIN keys \ {Current(id)}) \cup {name}
    <2>1. Moved(id, suffix) = [n \in dom |-> IF n = name THEN k ELSE Without(Current(id))[n]]
      BY <1>4 DEF Moved, With, Without
    <2>2. \A n \in dom : n # name => Without(Current(id))[n] = keys[n]
      BY DEF Without
    <2>3. /\ name \in Names /\ name # Current(id)
          /\ \A other \in Ids : Current(other) # name /\ (Current(other) = Current(id) => other = id)
      BY NamesDiffer
    <2> HIDE DEF name, k
    <2> QED BY <1>1, <1>2, <1>4, <2>1, <2>2, <2>3 DEF k, name
  <1> QED BY <1>3, <1>4

(* Generate and Store before the lock touch nothing that is shared. *)
LEMMA BuildKInv ==
    ASSUME KInv, NEW m \in Makers, NEW id \in Ids, NEW ttl \in KeyTTLs, Build(m, id, ttl)
    PROVE  KInv'
  <1>1. Entry(id, ttl) \in KeyEntry /\ ~Entry(id, ttl).revoked
    BY EntryFresh DEF KInv, Dead
  <1>2. KeyringTypeOK' /\ Unrevoked'
    BY <1>1 DEF KInv, KeyringTypeOK, Unrevoked, Build
  <1> QED BY <1>2 DEF KInv, OwnName, OneName, InReach, Dead, Expired, Build

(* Filing an entry under its id displaces what was there, and nothing else. *)
LEMMA FileKInv ==
    ASSUME KInv, NEW m \in Makers, File(m)
    PROVE  KInv'
  <1> DEFINE new == Len(entries) + 1
             id == making[m].id
  <1>1. making[m] \in KeyEntry /\ id \in Ids /\ Current(id) \in Names /\ Current(id)[1] = id
    BY Zenon DEF KInv, KeyringTypeOK, File, KeyEntry, Names, Current
  <1>2. entries \in Seq(KeyEntry) /\ entries' = Append(entries, making[m]) /\ krNow' = krNow
    BY DEF KInv, KeyringTypeOK, File
  <1>3. /\ entries' \in Seq(KeyEntry)
        /\ DOMAIN entries' = DOMAIN entries \cup {new} /\ new \notin DOMAIN entries
        /\ entries'[new] = making[m]
        /\ \A e \in DOMAIN entries : entries'[e] = entries[e]
    BY <1>1, <1>2, AppendEffect
  <1>4. /\ DOMAIN keys' = DOMAIN keys \cup {Current(id)}
        /\ keys'[Current(id)] = new
        /\ \A n \in DOMAIN keys : n # Current(id) => keys'[n] = keys[n]
        /\ keys' = [n \in DOMAIN keys' |-> keys'[n]]
    BY DEF File, With
  <1>5. /\ DOMAIN keys \subseteq Names
        /\ \A n \in DOMAIN keys : keys[n] \in DOMAIN entries
    BY DEF KInv, KeyringTypeOK
  <1>6. /\ displaced' = displaced \cup {keys[n] : n \in {Current(id)} \cap DOMAIN keys}
        /\ displaced \subseteq DOMAIN entries
    BY DEF File, At, KInv, KeyringTypeOK
  <1> HIDE DEF new, id
  <1>7. KeyringTypeOK'
    <2>1. making' \in [Makers -> KeyEntry \cup {NoEntry}]
      BY DEF File, KInv, KeyringTypeOK
    <2>2. keys' \in [DOMAIN keys' -> DOMAIN entries'] /\ DOMAIN keys' \subseteq Names
      BY <1>1, <1>3, <1>4, <1>5
    <2>3. displaced' \subseteq DOMAIN entries' /\ krNow' \in Nat
      BY <1>2, <1>3, <1>5, <1>6 DEF KInv, KeyringTypeOK
    <2> QED BY <1>3, <2>1, <2>2, <2>3 DEF KeyringTypeOK
  <1>8. OwnName'
    <2>1. entries'[new].id = id
      BY <1>3 DEF id
    <2> QED BY <1>1, <1>3, <1>4, <1>5, <2>1 DEF KInv, OwnName
  <1>9. OneName'
    BY <1>3, <1>4, <1>5 DEF KInv, OneName
  <1>10. InReach'
    <2> SUFFICES ASSUME NEW e \in DOMAIN entries', ~Dead(entries[e])', e \notin displaced'
                 PROVE  /\ Current(entries'[e].id) \in DOMAIN keys'
                        /\ keys'[Current(entries'[e].id)] = e
      BY Zenon DEF InReach, Current
    <2>1. CASE e = new
      BY <1>3, <1>4, <2>1 DEF id
    <2>2. CASE e \in DOMAIN entries
      <3>1. ~Dead(entries[e]) /\ e \notin displaced
        BY <1>2, <1>3, <1>6, <2>2 DEF Dead, Expired
      <3>2. Current(entries[e].id) \in DOMAIN keys /\ keys[Current(entries[e].id)] = e
        BY <2>2, <3>1 DEF KInv, InReach
      <3>3. Current(entries[e].id) # Current(id)
        BY <1>6, <3>2
      <3> QED BY <1>3, <1>4, <2>2, <3>2, <3>3
    <2> QED BY <1>3, <2>1, <2>2
  <1>11. Unrevoked'
    BY DEF KInv, KeyringTypeOK, Unrevoked, File
  <1> QED BY <1>7, <1>8, <1>9, <1>10, <1>11 DEF KInv

(* Revoke kills one entry and leaves the map alone. *)
LEMMA RevokeKInv ==
    ASSUME KInv, NEW name \in Names, Revoke(name)
    PROVE  KInv'
  <1> DEFINE k == keys[name]
             y == [entries[k] EXCEPT !.revoked = TRUE]
  <1>1. k \in DOMAIN entries /\ entries \in Seq(KeyEntry) /\ entries[k] \in KeyEntry
    BY DEF KInv, KeyringTypeOK, Revoke
  <1>2. y \in KeyEntry /\ y.id = entries[k].id /\ y.revoked
    BY <1>1, Zenon DEF KeyEntry
  <1>3. entries' = [entries EXCEPT ![k] = y] /\ UNCHANGED <<keys, making, krNow, displaced>>
    BY DEF Revoke
  <1> HIDE DEF k, y
  <1>4. /\ entries' \in Seq(KeyEntry) /\ DOMAIN entries' = DOMAIN entries
        /\ \A e \in DOMAIN entries :
              /\ entries'[e].id = entries[e].id
              /\ e # k => entries'[e] = entries[e]
              /\ e = k => entries'[e].revoked
    BY <1>1, <1>2, <1>3
  <1>5. KeyringTypeOK' /\ OwnName' /\ OneName' /\ Unrevoked'
    BY <1>3, <1>4 DEF KInv, KeyringTypeOK, OwnName, OneName, Unrevoked
  <1>6. InReach'
    BY <1>3, <1>4, Zenon DEF KInv, InReach, Dead, Expired, Current
  <1> QED BY <1>5, <1>6 DEF KInv

(* Delete and Cleanup take names out of the map: what they take is         *)
(* displaced, or dead.                                                     *)
LEMMA ShrinkKInv ==
    ASSUME KInv, NEW keep \in SUBSET DOMAIN keys,
           keys' = [n \in keep |-> keys[n]],
           UNCHANGED <<entries, making, krNow>>,
           displaced \subseteq displaced', displaced' \subseteq DOMAIN entries,
           \A n \in DOMAIN keys \ keep : keys[n] \in displaced' \/ Dead(entries[keys[n]])
    PROVE  KInv'
  <1>1. KeyringTypeOK' /\ OwnName' /\ OneName' /\ Unrevoked'
    BY DEF KInv, KeyringTypeOK, OwnName, OneName, Unrevoked
  <1>2. InReach'
    <2> SUFFICES ASSUME NEW e \in DOMAIN entries, ~Dead(entries[e]), e \notin displaced'
                 PROVE  /\ Current(entries[e].id) \in DOMAIN keys'
                        /\ keys'[Current(entries[e].id)] = e
      BY Zenon DEF InReach, Current, Dead, Expired
    <2>1. Current(entries[e].id) \in DOMAIN keys /\ keys[Current(entries[e].id)] = e
      BY DEF KInv, InReach
    <2> QED BY <2>1
  <1> QED BY <1>1, <1>2 DEF KInv

(* What Delete takes out of the map is displaced. *)
LEMMA DeleteKInv ==
    ASSUME KInv, NEW name \in Names, Delete(name)
    PROVE  KInv'
  <1>1. At(name) \subseteq DOMAIN entries /\ displaced \subseteq DOMAIN entries
    BY DEF At, KInv, KeyringTypeOK
  <1>2. \A n \in DOMAIN keys \ (DOMAIN keys \ {name}) : keys[n] \in displaced'
    BY DEF Delete, At
  <1> QED BY <1>1, <1>2, ShrinkKInv DEF Delete, Without

(* What Cleanup takes out of the map is dead. *)
LEMMA CleanupKInv ==
    ASSUME KInv, Cleanup
    PROVE  KInv'
  <1> DEFINE keep == {n \in DOMAIN keys : ~Removable(entries[keys[n]])}
  <1>1. \A n \in DOMAIN keys \ keep : Dead(entries[keys[n]])
    BY DEF Removable
  <1>2. displaced \subseteq DOMAIN entries
    BY DEF KInv, KeyringTypeOK
  <1> QED BY <1>1, <1>2, ShrinkKInv DEF Cleanup

(* The dead stay dead as time passes. *)
LEMMA ElapseKInv ==
    ASSUME KInv, Elapse
    PROVE  KInv'
  <1>1. krNow \in Nat /\ krNow' = krNow + 1 /\ UNCHANGED <<entries, keys, making, displaced>>
    BY DEF KInv, KeyringTypeOK, Elapse
  <1>2. \A e \in DOMAIN entries : entries[e].expires \in Nat
    BY EntryTypes DEF KInv
  <1>3. \A e \in DOMAIN entries : Dead(entries[e]) => Dead(entries[e])'
    BY <1>1, <1>2 DEF Dead, Expired
  <1>4. KeyringTypeOK' /\ OwnName' /\ OneName' /\ Unrevoked'
    BY <1>1 DEF KInv, KeyringTypeOK, OwnName, OneName, Unrevoked
  <1> QED BY <1>1, <1>3, <1>4, Zenon DEF KInv, InReach, Current

(* Rotate that fails leaves the old key dead under its new name. *)
LEMMA RotateFailsKInv ==
    ASSUME KInv, NEW id \in Ids, NEW suffix \in Suffixes, RotateFails(id, suffix)
    PROVE  KInv'
  <1> DEFINE k == keys[Current(id)]
  <1>1. KeyringTypeOK /\ k \in DOMAIN entries /\ Current(id) \in DOMAIN keys
    BY DEF KInv, KeyringTypeOK, RotateFails
  <1>2. /\ entries' \in Seq(KeyEntry) /\ DOMAIN entries' = DOMAIN entries
        /\ \A e \in DOMAIN entries :
              /\ entries'[e].id = entries[e].id
              /\ e = k => entries'[e].revoked
              /\ e # k => entries'[e] = entries[e]
    BY <1>1, RetireEffect DEF RotateFails, KeyringTypeOK
  <1>3. /\ DOMAIN keys' \subseteq Names /\ keys' \in [DOMAIN keys' -> DOMAIN entries']
        /\ Current(id) \notin DOMAIN keys'
        /\ \A n \in DOMAIN keys' : \/ n \in DOMAIN keys /\ keys'[n] = keys[n]
                                   \/ n = <<id, suffix>> /\ keys'[n] = k
        /\ \A other \in Ids : other # id /\ Current(other) \in DOMAIN keys =>
              Current(other) \in DOMAIN keys' /\ keys'[Current(other)] = keys[Current(other)]
    BY <1>2, MovedEffect DEF RotateFails
  <1>4. UNCHANGED <<making, krNow, displaced>>
    BY DEF RotateFails
  <1>5. k \in DOMAIN entries /\ entries[k].id = id
    BY <1>1, NamesDiffer, Zenon DEF KInv, OwnName
  <1>6. KeyringTypeOK'
    BY <1>2, <1>3, <1>4 DEF KInv, KeyringTypeOK
  <1> HIDE DEF k
  <1>7. OwnName'
    <2>1. <<id, suffix>>[1] = id
      OBVIOUS
    <2>2. \A n \in DOMAIN keys : keys[n] \in DOMAIN entries
      BY <1>1 DEF KeyringTypeOK
    <2> QED BY <1>2, <1>3, <1>5, <2>1, <2>2 DEF KInv, OwnName
  <1>8. OneName'
    <2>1. \A n \in DOMAIN keys : keys[n] = k => n = Current(id)
      BY <1>1 DEF KInv, OneName, k
    <2> QED BY <1>3, <2>1 DEF KInv, OneName
  <1>9. InReach'
    <2> SUFFICES ASSUME NEW e \in DOMAIN entries, ~Dead(entries[e])', e \notin displaced
                 PROVE  /\ Current(entries[e].id) \in DOMAIN keys'
                        /\ keys'[Current(entries[e].id)] = e
      BY <1>2, <1>4, Zenon DEF InReach, Current
    <2>1. e # k /\ ~Dead(entries[e]) /\ entries[e].id \in Ids
      BY <1>1, <1>2, <1>4, EntryTypes DEF Dead, Expired
    <2>2. Current(entries[e].id) \in DOMAIN keys /\ keys[Current(entries[e].id)] = e
      BY <2>1 DEF KInv, InReach
    <2>3. entries[e].id # id
      BY <2>1, <2>2 DEF k
    <2> QED BY <1>3, <2>1, <2>2, <2>3
  <1>10. Unrevoked'
    BY <1>4 DEF KInv, Unrevoked
  <1> QED BY <1>6, <1>7, <1>8, <1>9, <1>10 DEF KInv

(* Rotate that succeeds: the new key takes the place of the old one. *)
LEMMA RotateKInv ==
    ASSUME KInv, NEW id \in Ids, NEW ttl \in KeyTTLs, NEW suffix \in Suffixes,
           Rotate(id, ttl, suffix)
    PROVE  KInv'
  <1> DEFINE new == Len(entries) + 1
             old == Retire(id)
             moved == Moved(id, suffix)
             Replaced(e) == Current(id) \in DOMAIN keys /\ e = keys[Current(id)]
  <1>1. KeyringTypeOK /\ entries \in Seq(KeyEntry)
    BY DEF KInv, KeyringTypeOK
  <1>2. /\ old \in Seq(KeyEntry) /\ Len(old) = Len(entries) /\ DOMAIN old = DOMAIN entries
        /\ \A e \in DOMAIN entries :
              /\ old[e].id = entries[e].id
              /\ Replaced(e) => old[e].revoked
              /\ ~Replaced(e) => old[e] = entries[e]
    BY <1>1, RetireEffect
  <1>3. Entry(id, ttl) \in KeyEntry /\ Entry(id, ttl).id = id
    BY <1>1, EntryFresh
  <1>4. /\ entries' = Append(old, Entry(id, ttl)) /\ UNCHANGED <<making, krNow, displaced>>
        /\ keys' = With(moved, Current(id), new)
    BY DEF Rotate
  <1>5. /\ DOMAIN moved \subseteq Names /\ moved \in [DOMAIN moved -> DOMAIN entries]
        /\ Current(id) \notin DOMAIN moved
        /\ \A n \in DOMAIN moved : \/ n \in DOMAIN keys /\ moved[n] = keys[n]
                                   \/ /\ n = <<id, suffix>> /\ Current(id) \in DOMAIN keys
                                      /\ moved[n] = keys[Current(id)]
        /\ \A other \in Ids : other # id /\ Current(other) \in DOMAIN keys =>
              Current(other) \in DOMAIN moved /\ moved[Current(other)] = keys[Current(other)]
    BY MovedEffect
  <1> HIDE DEF old, moved, Replaced
  <1>6. /\ entries' \in Seq(KeyEntry)
        /\ DOMAIN entries' = DOMAIN entries \cup {new} /\ new \notin DOMAIN entries
        /\ entries'[new] = Entry(id, ttl)
        /\ \A e \in DOMAIN entries :
              /\ entries'[e].id = entries[e].id
              /\ Replaced(e) => entries'[e].revoked
              /\ ~Replaced(e) => entries'[e] = entries[e]
    <2>1. /\ entries' \in Seq(KeyEntry)
          /\ DOMAIN entries' = DOMAIN old \cup {Len(old) + 1} /\ Len(old) + 1 \notin DOMAIN old
          /\ entries'[Len(old) + 1] = Entry(id, ttl)
          /\ \A e \in DOMAIN old : entries'[e] = old[e]
      BY <1>2, <1>3, <1>4, AppendEffect
    <2> QED BY <1>2, <2>1
  <1> HIDE DEF new
  <1>7. /\ DOMAIN keys' = DOMAIN moved \cup {Current(id)}
        /\ keys'[Current(id)] = new
        /\ \A n \in DOMAIN moved : keys'[n] = moved[n]
        /\ keys' \in [DOMAIN keys' -> DOMAIN entries'] /\ DOMAIN keys' \subseteq Names
    <2>1. /\ DOMAIN keys' = DOMAIN moved \cup {Current(id)}
          /\ keys'[Current(id)] = new
          /\ \A n \in DOMAIN moved : keys'[n] = moved[n]
          /\ keys' = [n \in DOMAIN keys' |-> keys'[n]]
      BY <1>4, <1>5 DEF With
    <2>2. Current(id) \in Names /\ new \in DOMAIN entries'
      BY <1>6, NamesDiffer, Zenon
    <2> QED BY <1>5, <1>6, <2>1, <2>2
  <1>8. KeyringTypeOK'
    BY <1>1, <1>4, <1>6, <1>7 DEF KeyringTypeOK
  <1>9. OwnName'
    <2> SUFFICES ASSUME NEW n \in DOMAIN keys' PROVE entries'[keys'[n]].id = n[1]
      BY DEF OwnName
    <2>1. CASE n = Current(id)
      BY <1>3, <1>6, <1>7, <2>1, NamesDiffer, Zenon
    <2>2. CASE n \in DOMAIN moved
      <3>1. moved[n] \in DOMAIN entries /\ keys'[n] = moved[n]
        BY <1>5, <1>7, <2>2
      <3>2. entries[moved[n]].id = n[1]
        BY <1>5, <2>2, NamesDiffer DEF KInv, OwnName
      <3> QED BY <1>6, <3>1, <3>2
    <2> QED BY <1>7, <2>1, <2>2
  <1>10. OneName'
    <2>1. \A n, o \in DOMAIN moved : moved[n] = moved[o] => n = o
      BY <1>5 DEF KInv, OneName
    <2>2. \A n \in DOMAIN moved : keys'[n] # new
      BY <1>5, <1>6, <1>7
    <2> QED BY <1>7, <2>1, <2>2 DEF OneName
  <1>11. InReach'
    <2> SUFFICES ASSUME NEW e \in DOMAIN entries', ~Dead(entries[e])', e \notin displaced
                 PROVE  /\ Current(entries'[e].id) \in DOMAIN keys'
                        /\ keys'[Current(entries'[e].id)] = e
      BY <1>4, Zenon DEF InReach, Current
    <2>1. CASE e = new
      BY <1>3, <1>6, <1>7, <2>1
    <2>2. CASE e \in DOMAIN entries
      <3>1. ~Replaced(e) /\ entries'[e] = entries[e]
        BY <1>6, <2>2 DEF Dead
      <3>2. ~Dead(entries[e]) /\ entries[e].id \in Ids
        BY <1>1, <1>4, <2>2, <3>1, EntryTypes, Zenon DEF Dead, Expired
      <3>3. Current(entries[e].id) \in DOMAIN keys /\ keys[Current(entries[e].id)] = e
        BY <2>2, <3>2 DEF KInv, InReach
      <3>4. entries[e].id # id
        BY <3>1, <3>3 DEF Replaced
      <3> QED BY <1>5, <1>7, <3>1, <3>2, <3>3, <3>4
    <2> QED BY <1>6, <2>1, <2>2
  <1>12. Unrevoked'
    BY <1>4 DEF KInv, Unrevoked
  <1> QED BY <1>8, <1>9, <1>10, <1>11, <1>12 DEF KInv

(* Every step of the keyring preserves the invariant. *)
LEMMA StepKInv == KInv /\ [KeyringNext]_krVars => KInv'
  <1> SUFFICES ASSUME KInv, [KeyringNext]_krVars PROVE KInv'
    OBVIOUS
  <1>1. ASSUME NEW m \in Makers, NEW id \in Ids, NEW ttl \in KeyTTLs, Build(m, id, ttl) PROVE KInv'
    BY <1>1, BuildKInv
  <1>2. ASSUME NEW m \in Makers, File(m) PROVE KInv'
    BY <1>2, FileKInv
  <1>3. ASSUME NEW name \in Names, Revoke(name) \/ Delete(name) PROVE KInv'
    BY <1>3, RevokeKInv, DeleteKInv
  <1>4. ASSUME NEW id \in Ids, NEW ttl \in KeyTTLs, NEW suffix \in Suffixes, Rotate(id, ttl, suffix)
        PROVE  KInv'
    BY <1>4, RotateKInv
  <1>5. ASSUME NEW id \in Ids, NEW suffix \in Suffixes, RotateFails(id, suffix) PROVE KInv'
    BY <1>5, RotateFailsKInv
  <1>6. ASSUME Cleanup \/ Elapse PROVE KInv'
    BY <1>6, CleanupKInv, ElapseKInv
  <1>7. ASSUME UNCHANGED krVars PROVE KInv'
    BY <1>7, Zenon DEF krVars, KInv, KeyringTypeOK, OwnName, OneName, InReach, Unrevoked, Dead, Expired,
       Current
  <1> QED BY <1>1, <1>2, <1>3, <1>4, <1>5, <1>6, <1>7 DEF KeyringNext

(* The invariant holds of every behaviour of the keyring. *)
THEOREM KeyringInductive == KeyringSpec => []KInv
  BY InitKInv, StepKInv, PTL DEF KeyringSpec

(* For all ids, suffixes and lifetimes: a key that is not revoked, expired, *)
(* overwritten or deleted is the one filed under its id and is listed, so  *)
(* Revoke of the id reaches every holder of the entry.                     *)
THEOREM LiveKeysAreInReach == KeyringSpec => []LiveKeyInReach
  <1>1. KInv => LiveKeyInReach
    <2> SUFFICES ASSUME KInv, NEW e \in DOMAIN entries, ~Dead(entries[e]), e \notin displaced
                 PROVE  Lookup(Current(entries[e].id)) = e /\ e \in ListActive
      BY DEF LiveKeyInReach
    <2> DEFINE name == Current(entries[e].id)
    <2>1. name \in DOMAIN keys /\ keys[name] = e
      BY DEF KInv, InReach
    <2> HIDE DEF name
    <2>2. Lookup(name) = e /\ e \in ListActive
      BY <2>1 DEF Lookup, ListActive
    <2> QED BY <2>2 DEF name
  <1> QED BY <1>1, KeyringInductive, PTL

(* If the key of an id was in use and its entry and place are untouched,   *)
(* it still is.                                                            *)
LEMMA StillInUse ==
    ASSUME KInv', NEW id \in Ids, Current(id) \in DOMAIN keys',
           ~Dead(entries[keys[Current(id)]])'
    PROVE  Lookup(Current(id))' # 0
  <1>1. keys'[Current(id)] \in DOMAIN entries' /\ entries' \in Seq(KeyEntry)
    BY DEF KInv, KeyringTypeOK
  <1>2. keys'[Current(id)] # 0
    BY <1>1
  <1> QED BY <1>2, Zenon DEF Lookup, Current

(* For all ids, suffixes and lifetimes: an id whose key is in use goes on  *)
(* having one until the key is revoked, deleted, overwritten by one that   *)
(* expired in between, or at its end; no Cleanup, no Rotate of any other   *)
(* id and no Revoke of an older key takes it away.                         *)
THEOREM KeysUsableUntilRetired == KeyringSpec => UsableUntilRetired
  <1> DEFINE A == \A id \in Ids :
                    Lookup(Current(id)) # 0 /\ Lookup(Current(id))' = 0 => Retires(id)
  <1>1. ASSUME KInv, KInv', [KeyringNext]_krVars PROVE [A]_krVars
    <2> SUFFICES ASSUME KeyringNext, NEW id \in Ids,
                        Lookup(Current(id)) # 0, Lookup(Current(id))' = 0
                 PROVE  Retires(id)
      BY <1>1
    <2> DEFINE name == Current(id)
               k == keys[name]
    <2>1. name \in DOMAIN keys /\ ~Dead(entries[k]) /\ k \in DOMAIN entries /\ name \in Names
      BY <1>1 DEF Lookup, KInv, KeyringTypeOK
    <2>2. ~(name \in DOMAIN keys' /\ ~Dead(entries[keys[Current(id)]])')
      BY <1>1, StillInUse
    <2>3. KeyringTypeOK /\ entries \in Seq(KeyEntry)
      BY <1>1 DEF KInv, KeyringTypeOK
    <2>4. ASSUME UNCHANGED krNow, name \in DOMAIN keys', keys'[name] = k, entries'[k] = entries[k]
          PROVE  FALSE
      BY <2>1, <2>2, <2>4, Zenon DEF Dead, Expired, Current
    <2>5. ASSUME NEW m \in Makers, NEW i \in Ids, NEW ttl \in KeyTTLs, Build(m, i, ttl)
          PROVE  FALSE
      BY <2>1, <2>4, <2>5 DEF Build
    <2>6. ASSUME NEW m \in Makers, File(m)
          PROVE  Retires(id)
      <3>1. entries'[k] = entries[k] /\ entries'[Len(entries) + 1] = making[m] /\ krNow' = krNow
        <4>1. making[m] \in KeyEntry
          BY <2>3, <2>6 DEF File, KeyringTypeOK
        <4>2. entries' = Append(entries, making[m]) /\ krNow' = krNow
          BY <2>6 DEF File
        <4> QED BY <2>1, <2>3, <4>1, <4>2, AppendEffect
      <3>2. CASE making[m].id # id
        <4>1. name # Current(making[m].id)
          BY <3>2, Zenon DEF Current
        <4>2. name \in DOMAIN keys' /\ keys'[name] = k
          BY <2>1, <2>6, <4>1 DEF File, With
        <4> QED BY <2>4, <3>1, <4>2
      <3>3. CASE making[m].id = id
        <4>1. name \in DOMAIN keys' /\ keys'[name] = Len(entries) + 1
          BY <2>6, <3>3 DEF File, With
        <4>2. ~making[m].revoked
          BY <1>1, <2>6 DEF KInv, Unrevoked, File
        <4>3. Expired(making[m])
          BY <2>2, <3>1, <4>1, <4>2, Zenon DEF Dead, Expired, Current
        <4> QED BY <2>6, <3>3, <4>3, Zenon DEF Retires
      <3> QED BY <3>2, <3>3
    <2>7. ASSUME NEW n \in Names, Revoke(n)
          PROVE  Retires(id)
      <3>1. CASE n = name
        BY <2>7, <3>1, Zenon DEF Retires
      <3>2. CASE n # name
        <4>1. keys[n] # k /\ n \in DOMAIN keys
          BY <1>1, <2>1, <2>7, <3>2 DEF KInv, OneName, Revoke
        <4>2. entries'[k] = entries[k]
          BY <2>1, <2>3, <2>7, <4>1 DEF Revoke
        <4> QED BY <2>1, <2>4, <2>7, <4>2 DEF Revoke
      <3> QED BY <3>1, <3>2
    <2>8. ASSUME NEW n \in Names, Delete(n)
          PROVE  Retires(id)
      <3>1. CASE n = name
        BY <2>8, <3>1 DEF Retires
      <3>2. CASE n # name
        BY <2>1, <2>4, <2>8, <3>2, Zenon DEF Delete, Without
      <3> QED BY <3>1, <3>2
    <2>9. ASSUME NEW other \in Ids, other # id
          PROVE  Retire(other)[k] = entries[k]
      <3>1. ~(Current(other) \in DOMAIN keys /\ k = keys[Current(other)])
        BY <1>1, <2>1, <2>9, Zenon DEF KInv, OneName, Current
      <3> QED BY <2>1, <2>3, <3>1, RetireEffect, Zenon
    <2>10. ASSUME NEW other \in Ids, NEW ttl \in KeyTTLs, NEW suffix \in Suffixes,
                  Rotate(other, ttl, suffix)
           PROVE  FALSE
      <3>1. /\ Retire(other) \in Seq(KeyEntry)
            /\ Len(Retire(other)) = Len(entries) /\ DOMAIN Retire(other) = DOMAIN entries
            /\ entries' = Append(Retire(other), Entry(other, ttl)) /\ krNow' = krNow
        BY <2>3, <2>10, RetireEffect DEF Rotate
      <3>2. /\ entries'[k] = Retire(other)[k]
            /\ entries'[Len(entries) + 1] = Entry(other, ttl)
        <4>1. Entry(other, ttl) \in KeyEntry
          BY <2>3, EntryFresh
        <4>2. /\ entries'[Len(Retire(other)) + 1] = Entry(other, ttl)
              /\ \A e \in DOMAIN Retire(other) : entries'[e] = Retire(other)[e]
          BY <3>1, <4>1, AppendEffect
        <4> QED BY <2>1, <3>1, <4>2, Zenon
      <3>3. CASE other = id
        <4>1. name \in DOMAIN keys' /\ keys'[name] = Len(entries) + 1
          BY <2>10, <3>3 DEF Rotate, With
        <4>2. ~Dead(Entry(other, ttl))
          BY <2>3, EntryFresh
        <4> QED BY <2>2, <3>1, <3>2, <4>1, <4>2, Zenon DEF Dead, Expired, Current
      <3>4. CASE other # id
        <4>1. name # Current(other)
          BY <3>4, Zenon DEF Current
        <4>2. name \in DOMAIN Moved(other, suffix) /\ Moved(other, suffix)[name] = k
          BY <1>1, <2>1, <3>4, MovedEffect
        <4>3. name \in DOMAIN keys' /\ keys'[name] = k
          BY <2>10, <4>1, <4>2 DEF Rotate, With
        <4> QED BY <2>4, <2>9, <3>1, <3>2, <3>4, <4>3
      <3> QED BY <3>3, <3>4, Zenon
    <2>11. ASSUME NEW other \in Ids, NEW suffix \in Suffixes, RotateFails(other, suffix)
           PROVE  Retires(id)
      <3>1. CASE other = id
        BY <2>11, <3>1 DEF Retires
      <3>2. CASE other # id
        <4>1. name \in DOMAIN keys' /\ keys'[name] = k
          BY <1>1, <2>1, <2>11, <3>2, MovedEffect DEF RotateFails
        <4> QED BY <2>4, <2>9, <2>11, <3>2, <4>1, Zenon DEF RotateFails
      <3> QED BY <3>1, <3>2
    <2>12. ASSUME Cleanup
           PROVE  FALSE
      BY <2>1, <2>4, <2>12 DEF Cleanup, Removable
    <2>13. ASSUME Elapse
           PROVE  Retires(id)
      BY <2>1, <2>2, <2>13, Zenon DEF Elapse, Retires, Dead, Expired, Current
    <2> QED BY <2>5, <2>6, <2>7, <2>8, <2>10, <2>11, <2>12, <2>13 DEF KeyringNext
  <1>2. KeyringSpec => [][A]_krVars
    BY <1>1, KeyringInductive, PTL DEF KeyringSpec
  <1> QED BY <1>2 DEF UsableUntilRetired
-----------------------------------------------------------------------------
(* A pending nonce was drawn for the service it is pending for and has not *)
(* been compared with a response.                                          *)
PendingIsFresh ==
    \A s \in Known : pendingChallenges[s] # NoNonce =>
        /\ pendingChallenges[s] \in DOMAIN challenges
        /\ challenges[pendingChallenges[s]] = s
        /\ tried[pendingChallenges[s]] = 0

(* A nonce that has not been drawn has not been compared either. *)
TriedWasDrawn == \A n \in Nonces : n > Len(challenges) => tried[n] = 0

(* A nonce that earned a session has been compared. *)
EarnedWasTried ==
    \A t \in DOMAIN grants : grants[t].nonce # NoNonce => tried[grants[t].nonce] = 1

(* The inductive invariant of the authenticator. *)
AuthInv ==
    /\ AuthTypeOK
    /\ NonceTriedOnce
    /\ GrantMatchesChallenge
    /\ PendingIsNewest
    /\ PendingIsFresh
    /\ TriedWasDrawn
    /\ EarnedWasTried

(* The invariant holds of a new authenticator. *)
LEMMA InitAuthInv == AuthInit => AuthInv
  BY AuthAssumption
  DEF AuthInit, NewAuthenticator, AuthInv, AuthTypeOK, NonceTriedOnce,
      GrantMatchesChallenge, PendingIsNewest, PendingIsFresh, TriedWasDrawn,
      EarnedWasTried, NoNonce, Nonces

(* The elements of a sequence, as it is and with one more. *)
LEMMA Lengths ==
  ASSUME NEW S, NEW q \in Seq(S)
  PROVE  Len(q) \in Nat /\ DOMAIN q = 1 .. Len(q)
  OBVIOUS

(* They are of the set the sequence is over. *)
LEMMA ElementsIn ==
  ASSUME NEW S, NEW q \in Seq(S), NEW i \in 1 .. Len(q)
  PROVE  q[i] \in S
  OBVIOUS

(* Those that were there stay, and the new one is the last. *)
LEMMA Appended ==
  ASSUME NEW S, NEW q \in Seq(S), NEW e \in S
  PROVE  /\ Append(q, e) \in Seq(S) /\ Len(Append(q, e)) = Len(q) + 1
         /\ \A i \in 1 .. Len(q) : Append(q, e)[i] = q[i]
         /\ Append(q, e)[Len(q) + 1] = e
  OBVIOUS

(* Drawing a nonce for a service preserves the invariant. *)
LEMMA CreateChallengeInv ==
  ASSUME AuthInv, NEW s, NEW n, CreateChallenge(s, n)
  PROVE  AuthInv'
  <1> USE DEF AuthInv, NoNonce
  <1>1. /\ s \in Known
        /\ n = Len(challenges) + 1 /\ n \in Nonces
        /\ challenges' \in Seq(Known)
        /\ Len(challenges') = n /\ DOMAIN challenges' = 1 .. n
        /\ DOMAIN challenges = 1 .. (n - 1)
        /\ challenges'[n] = s
        /\ \A i \in 1 .. (n - 1) : challenges'[i] = challenges[i]
    BY Appended, Lengths, AuthAssumption
    DEF CreateChallenge, AuthTypeOK, Nonces
  <1>2. /\ pendingChallenges' = [pendingChallenges EXCEPT ![s] = n]
        /\ UNCHANGED <<activeSessions, sessionTTL, now, grants, tried>>
    BY DEF CreateChallenge, StoreChallenge
  <1>3. AuthTypeOK'
    BY <1>1, <1>2, AuthAssumption DEF AuthTypeOK, Nonces
  <1>4. NonceTriedOnce' /\ EarnedWasTried'
    BY <1>2 DEF NonceTriedOnce, EarnedWasTried
  <1>5. GrantMatchesChallenge'
    BY <1>1, <1>2 DEF GrantMatchesChallenge, AuthTypeOK
  <1>6. PendingIsNewest'
    <2> SUFFICES ASSUME NEW z \in Known, pendingChallenges'[z] # NoNonce,
                        NEW m \in 1 .. n, challenges'[m] = z
                 PROVE  m <= pendingChallenges'[z]
      BY <1>1 DEF PendingIsNewest
    <2>1. CASE z = s
      BY <2>1, <1>1, <1>2 DEF AuthTypeOK, Nonces
    <2>2. CASE z # s
      <3>1. m \in 1 .. (n - 1) /\ challenges[m] = z
        BY <2>2, <1>1 DEF Nonces
      <3>2. pendingChallenges'[z] = pendingChallenges[z]
        BY <2>2, <1>2 DEF AuthTypeOK
      <3> QED BY <3>1, <3>2, <1>1 DEF PendingIsNewest
    <2> QED BY <2>1, <2>2
  <1>7. PendingIsFresh'
    BY <1>1, <1>2 DEF PendingIsFresh, TriedWasDrawn, AuthTypeOK, Nonces
  <1>8. TriedWasDrawn'
    BY <1>1, <1>2 DEF TriedWasDrawn, AuthTypeOK, Nonces
  <1> QED BY <1>3, <1>4, <1>5, <1>6, <1>7, <1>8

(* Consuming a pending nonce preserves what the invariant says of nonces,  *)
(* and the nonce has been tried exactly once afterwards.                   *)
LEMMA ConsumeInv ==
  ASSUME AuthInv, NEW s, NEW r, HasPending(s), Consume(s, r), UNCHANGED challenges
  PROVE  /\ s \in Known /\ pendingChallenges[s] \in DOMAIN challenges
         /\ pendingChallenges[s] \in Nonces
         /\ challenges[pendingChallenges[s]] = s
         /\ tried[pendingChallenges[s]] = 0
         /\ tried' = [tried EXCEPT ![pendingChallenges[s]] = 1]
         /\ pendingChallenges' \in [Known -> Nonces \cup {NoNonce}]
         /\ tried' \in [Nonces -> Nat]
         /\ NonceTriedOnce' /\ PendingIsNewest' /\ PendingIsFresh' /\ TriedWasDrawn'
  <1> DEFINE n == pendingChallenges[s]
  <1> USE DEF AuthInv, NoNonce
  <1>1. /\ s \in Known /\ n # NoNonce /\ n \in DOMAIN challenges
        /\ challenges[n] = s /\ tried[n] = 0 /\ n \in Nonces
    BY DEF HasPending, PendingIsFresh, AuthTypeOK
  <1>2. /\ pendingChallenges' = [pendingChallenges EXCEPT ![s] = NoNonce]
        /\ tried' = [tried EXCEPT ![n] = 1]
    BY <1>1 DEF Consume, AuthTypeOK
  <1>3. /\ pendingChallenges' \in [Known -> Nonces \cup {NoNonce}]
        /\ tried' \in [Nonces -> Nat]
    BY <1>1, <1>2 DEF AuthTypeOK
  <1>4. NonceTriedOnce'
    BY <1>1, <1>2 DEF NonceTriedOnce, AuthTypeOK
  <1>5. PendingIsNewest'
    BY <1>1, <1>2 DEF PendingIsNewest, AuthTypeOK
  <1>6. PendingIsFresh'
    BY <1>1, <1>2 DEF PendingIsFresh, AuthTypeOK
  <1>7. TriedWasDrawn'
    BY <1>1, <1>2, Lengths DEF TriedWasDrawn, AuthTypeOK
  <1> QED BY <1>1, <1>2, <1>3, <1>4, <1>5, <1>6, <1>7

(* Adding a session earned by nonce n, which no session was earned with,   *)
(* preserves what the invariant says of sessions.                          *)
LEMMA NewSessionInv ==
  ASSUME AuthInv, NEW s \in Known, NEW n \in Nonces \cup {NoNonce},
         NewSession(s, n), UNCHANGED <<challenges, now, sessionTTL>>,
         tried' \in [Nonces -> Nat],
         n # NoNonce => n \in DOMAIN challenges /\ challenges[n] = s
                        /\ tried[n] = 0 /\ tried'[n] = 1,
         \A m \in Nonces : m # n => tried'[m] = tried[m]
  PROVE  /\ grants' \in Seq(PeerIdentity) /\ activeSessions' \subseteq DOMAIN grants'
         /\ GrantMatchesChallenge' /\ EarnedWasTried'
  <1> DEFINE id == [service |-> s, created |-> now, ttl |-> sessionTTL, nonce |-> n]
             k == Len(grants) + 1
  <1> USE DEF AuthInv, NoNonce
  <1>1. id \in PeerIdentity
    BY AuthAssumption DEF PeerIdentity, AuthTypeOK
  <1>2. grants' = Append(grants, id) /\ activeSessions' = activeSessions \cup {k}
    BY Zenon DEF NewSession
  <1>3. /\ grants' \in Seq(PeerIdentity)
        /\ DOMAIN grants = 1 .. (k - 1) /\ DOMAIN grants' = 1 .. k
        /\ k \in Nat \ {0}
        /\ grants'[k] = id
        /\ \A i \in 1 .. (k - 1) : grants'[i] = grants[i]
    <2>1. grants \in Seq(PeerIdentity)
      BY Zenon DEF AuthTypeOK
    <2> HIDE DEF id, AuthInv
    <2>2. /\ grants' \in Seq(PeerIdentity) /\ Len(grants') = Len(grants) + 1
          /\ \A i \in 1 .. Len(grants) : grants'[i] = grants[i]
          /\ grants'[Len(grants) + 1] = id
      <3>1. /\ Append(grants, id) \in Seq(PeerIdentity)
            /\ Len(Append(grants, id)) = Len(grants) + 1
            /\ \A i \in 1 .. Len(grants) : Append(grants, id)[i] = grants[i]
            /\ Append(grants, id)[Len(grants) + 1] = id
        BY <1>1, <2>1, Appended, SMTT(30)
      <3> QED BY <1>2, <3>1, ZenonT(30)
    <2>3. /\ Len(grants) \in Nat /\ DOMAIN grants = 1 .. Len(grants)
          /\ DOMAIN grants' = 1 .. Len(grants')
      BY <2>1, <2>2, Lengths, ZenonT(30)
    <2>4. k - 1 = Len(grants) /\ k = Len(grants) + 1 /\ k \in Nat \ {0}
      BY <2>3
    <2> QED BY <2>2, <2>3, <2>4, ZenonT(30)
  <1>4. activeSessions' \subseteq DOMAIN grants'
    BY <1>2, <1>3 DEF AuthTypeOK
  <1>5. \A t \in 1 .. (k - 1) : /\ grants[t] \in PeerIdentity
                                /\ grants[t].nonce \in Nonces \cup {NoNonce}
                                /\ grants[t].nonce # NoNonce => grants[t].nonce # n
    <2> TAKE t \in 1 .. (k - 1)
    <2>1. grants[t] \in PeerIdentity
      BY <1>3, ElementsIn DEF AuthTypeOK
    <2>2. grants[t].nonce # NoNonce => tried[grants[t].nonce] = 1
      BY <1>3 DEF EarnedWasTried
    <2> QED BY <2>1, <2>2 DEF PeerIdentity
  <1>6. id.nonce = n /\ id.service = s
    OBVIOUS
  <1> HIDE DEF id
  <1>7. GrantMatchesChallenge'
    <2> SUFFICES ASSUME NEW t \in 1 .. k, grants'[t].nonce # NoNonce
                 PROVE  /\ grants'[t].nonce \in DOMAIN challenges
                        /\ challenges[grants'[t].nonce] = grants'[t].service
                        /\ \A u \in 1 .. k : grants'[u].nonce = grants'[t].nonce => u = t
      BY <1>3 DEF GrantMatchesChallenge
    <2>1. CASE t = k
      BY <2>1, <1>3, <1>5, <1>6
    <2>2. CASE t # k
      <3>1. t \in 1 .. (k - 1)
        BY <2>2, <1>3
      <3>2. /\ grants[t].nonce \in DOMAIN challenges
            /\ challenges[grants[t].nonce] = grants[t].service
            /\ \A u \in 1 .. (k - 1) : grants[u].nonce = grants[t].nonce => u = t
        BY <3>1, <1>3, Zenon DEF GrantMatchesChallenge
      <3>3. grants[t].nonce # n
        BY <3>1, <1>3, <1>5
      <3>4. grants'[t] = grants[t] /\ grants'[k].nonce = n
        BY <3>1, <1>3, <1>6
      <3>5. ASSUME NEW u \in 1 .. k, grants'[u].nonce = grants[t].nonce PROVE u = t
        <4>1. u # k
          BY <3>3, <3>4, <3>5
        <4>2. u \in 1 .. (k - 1)
          BY <1>3, <4>1
        <4>3. grants'[u] = grants[u]
          BY <1>3, <4>2
        <4> QED BY <3>2, <3>5, <4>2, <4>3
      <3> QED BY <3>2, <3>4, <3>5
    <2> QED BY <2>1, <2>2, Zenon
  <1>8. EarnedWasTried'
    BY <1>3, <1>5, <1>6 DEF EarnedWasTried
  <1> QED BY <1>3, <1>4, <1>7, <1>8

(* Comparing a response, rightly or wrongly, preserves the invariant. *)
LEMMA VerifyInv ==
  ASSUME AuthInv, NEW s, NEW r,
         VerifyResponse(s, r) \/ VerifyResponseFails(s, r)
  PROVE  AuthInv'
  <1> USE DEF NoNonce
  <1>1. CASE VerifyResponse(s, r)
    <2>1. /\ HasPending(s) /\ Consume(s, r) /\ NewSession(s, pendingChallenges[s])
          /\ UNCHANGED <<sessionTTL, now, challenges>>
      BY <1>1 DEF VerifyResponse
    <2>2. /\ s \in Known /\ pendingChallenges[s] \in DOMAIN challenges
          /\ pendingChallenges[s] \in Nonces
          /\ challenges[pendingChallenges[s]] = s
          /\ tried[pendingChallenges[s]] = 0
          /\ tried' = [tried EXCEPT ![pendingChallenges[s]] = 1]
          /\ pendingChallenges' \in [Known -> Nonces \cup {NoNonce}]
          /\ tried' \in [Nonces -> Nat]
          /\ NonceTriedOnce' /\ PendingIsNewest' /\ PendingIsFresh' /\ TriedWasDrawn'
      BY <2>1, ConsumeInv, Zenon
    <2>3. /\ tried'[pendingChallenges[s]] = 1
          /\ \A m \in Nonces : m # pendingChallenges[s] => tried'[m] = tried[m]
      BY <2>2 DEF AuthInv, AuthTypeOK
    <2>4. /\ grants' \in Seq(PeerIdentity) /\ activeSessions' \subseteq DOMAIN grants'
          /\ GrantMatchesChallenge' /\ EarnedWasTried'
      BY <2>1, <2>2, <2>3, NewSessionInv, Zenon
    <2> QED BY <2>1, <2>2, <2>4 DEF AuthInv, AuthTypeOK
  <1>2. CASE VerifyResponseFails(s, r)
    <2>1. CASE UNCHANGED authVars
      BY <2>1 DEF authVars, AuthInv, AuthTypeOK, NonceTriedOnce,
         GrantMatchesChallenge, PendingIsNewest, PendingIsFresh, TriedWasDrawn,
         EarnedWasTried
    <2>2. CASE /\ HasPending(s) /\ Consume(s, r)
               /\ UNCHANGED <<activeSessions, sessionTTL, now, challenges, grants>>
      <3>1. /\ pendingChallenges[s] \in Nonces
            /\ tried[pendingChallenges[s]] = 0
            /\ tried' = [tried EXCEPT ![pendingChallenges[s]] = 1]
            /\ pendingChallenges' \in [Known -> Nonces \cup {NoNonce}]
            /\ tried' \in [Nonces -> Nat]
            /\ NonceTriedOnce' /\ PendingIsNewest' /\ PendingIsFresh' /\ TriedWasDrawn'
        BY <2>2, ConsumeInv, Zenon
      <3>2. EarnedWasTried'
        BY <2>2, <3>1 DEF AuthInv, AuthTypeOK, EarnedWasTried
      <3>3. GrantMatchesChallenge'
        BY <2>2, Zenon DEF AuthInv, GrantMatchesChallenge
      <3> QED BY <2>2, <3>1, <3>2, <3>3, SMTT(30) DEF AuthInv, AuthTypeOK
    <2> QED BY <1>2, <2>1, <2>2, Zenon DEF VerifyResponseFails
  <1> QED BY <1>1, <1>2, Zenon

(* The legacy path adds a session without touching a nonce. *)
LEMMA AuthenticateInv ==
  ASSUME AuthInv, NEW s, Authenticate(s)
  PROVE  AuthInv'
  <1> USE DEF NoNonce
  <1>1. /\ s \in Known /\ NewSession(s, NoNonce)
        /\ UNCHANGED <<pendingChallenges, sessionTTL, now, challenges, tried>>
    BY DEF Authenticate
  <1>2. /\ grants' \in Seq(PeerIdentity) /\ activeSessions' \subseteq DOMAIN grants'
        /\ GrantMatchesChallenge' /\ EarnedWasTried'
    BY <1>1, NewSessionInv DEF AuthInv, AuthTypeOK
  <1> QED
    BY <1>1, <1>2 DEF AuthInv, AuthTypeOK, NonceTriedOnce, PendingIsNewest,
       PendingIsFresh, TriedWasDrawn

(* Every step of the authenticator preserves the invariant. *)
LEMMA StepAuthInv == AuthInv /\ [AuthNext]_authVars => AuthInv'
  <1> SUFFICES ASSUME AuthInv, [AuthNext]_authVars PROVE AuthInv'
    OBVIOUS
  <1> DEFINE Rest == UNCHANGED <<pendingChallenges, challenges, grants, tried>>
  <1>1. ASSUME Rest, sessionTTL' \in TTLs, now' \in Nat,
               activeSessions' \subseteq activeSessions
        PROVE  AuthInv'
    BY <1>1, Zenon DEF AuthInv, AuthTypeOK, NonceTriedOnce, GrantMatchesChallenge,
       PendingIsNewest, PendingIsFresh, TriedWasDrawn, EarnedWasTried
  <1>2. ASSUME NEW ttl \in TTLs, SetSessionTTL(ttl) PROVE AuthInv'
    BY <1>1, <1>2 DEF SetSessionTTL, AuthInv, AuthTypeOK
  <1>3. ASSUME NEW t, RevokeSession(t) PROVE AuthInv'
    BY <1>1, <1>3 DEF RevokeSession, AuthInv, AuthTypeOK
  <1>4. ASSUME CleanupExpired PROVE AuthInv'
    BY <1>1, <1>4 DEF CleanupExpired, AuthInv, AuthTypeOK
  <1>5. ASSUME Tick PROVE AuthInv'
    BY <1>1, <1>5 DEF Tick, AuthInv, AuthTypeOK
  <1>6. ASSUME UNCHANGED authVars PROVE AuthInv'
    BY <1>1, <1>6 DEF authVars, AuthInv, AuthTypeOK
  <1>7. ASSUME NEW s, CreateChallengeFails(s) PROVE AuthInv'
    BY <1>6, <1>7 DEF CreateChallengeFails
  <1> QED
    BY <1>2, <1>3, <1>4, <1>5, <1>6, <1>7, CreateChallengeInv, VerifyInv,
       AuthenticateInv
    DEF AuthNext

(* The strengthened invariant holds throughout. *)
THEOREM AuthInductive == AuthSpec => []AuthInv
  BY InitAuthInv, StepAuthInv, PTL DEF AuthSpec

(* The authenticator's state keeps its types. *)
THEOREM AuthTypeCorrect == AuthSpec => []AuthTypeOK
  BY AuthInductive, PTL DEF AuthInv

(* VerifyResponse deletes a challenge before it compares: no nonce is ever *)
(* compared with two responses.                                            *)
THEOREM SingleUseNonces == AuthSpec => []NonceTriedOnce
  BY AuthInductive, PTL DEF AuthInv

(* Sessions and the nonces that earned them correspond one to one, and     *)
(* each nonce was drawn for the service the session is for.                *)
THEOREM SessionsAreEarned == AuthSpec => []GrantMatchesChallenge
  BY AuthInductive, PTL DEF AuthInv

(* A pending challenge is the newest of its service. *)
THEOREM NewestChallengePends == AuthSpec => []PendingIsNewest
  BY AuthInductive, PTL DEF AuthInv

(* Sessions leave the table by revocation or when their own TTL has passed. *)
THEOREM SessionsKeptUntilOverdue == AuthSpec => OnlyRevokedOrOverdueRemoved
  <1> DEFINE A == \A t \in activeSessions \ activeSessions' :
                    \/ RevokeSession(t)
                    \/ grants[t].ttl > 0 /\ now > grants[t].created + grants[t].ttl
  <1>1. ASSUME AuthInv, [AuthNext]_authVars PROVE [A]_authVars
    <2> SUFFICES ASSUME AuthNext, NEW t \in activeSessions, t \notin activeSessions'
                 PROVE  \/ RevokeSession(t)
                        \/ grants[t].ttl > 0 /\ now > grants[t].created + grants[t].ttl
      BY <1>1
    <2>1. CASE \E u \in Tokens : RevokeSession(u)
      BY <2>1 DEF RevokeSession
    <2>2. CASE CleanupExpired
      <3>1. IsExpired(t)
        BY <2>2 DEF CleanupExpired
      <3>2. grants[t] \in PeerIdentity /\ now \in Nat
        BY <1>1, ElementsIn, Lengths DEF AuthInv, AuthTypeOK
      <3> QED BY <3>1, <3>2 DEF IsExpired, PeerIdentity
    <2>3. CASE Tick \/ \E ttl \in TTLs : SetSessionTTL(ttl)
      BY <2>3 DEF Tick, SetSessionTTL
    <2>4. ASSUME NEW s, NEW n, CreateChallenge(s, n) PROVE FALSE
      BY <2>4 DEF CreateChallenge
    <2>5. ASSUME NEW s, \/ CreateChallengeFails(s) \/ Authenticate(s)
                        \/ \E r \in Responses :
                             VerifyResponse(s, r) \/ VerifyResponseFails(s, r)
          PROVE FALSE
      BY <2>5, Zenon DEF CreateChallengeFails, Authenticate, VerifyResponse,
         VerifyResponseFails, NewSession, authVars
    <2> QED BY <2>1, <2>2, <2>3, <2>4, <2>5, Zenon DEF AuthNext
  <1>2. AuthSpec => [][A]_authVars
    BY <1>1, AuthInductive, PTL DEF AuthSpec
  <1> QED BY <1>2 DEF OnlyRevokedOrOverdueRemoved
-----------------------------------------------------------------------------
(* The answer of the tables, to a call that has not read them yet. *)
TablesInForce ==
    \A v \in Evaluators : eval[v].at = "called" =>
        Judge(rules[eval[v].action], defaultDeny, eval[v].capability) \in inForce[v]

(* The answer of what a call has copied under the lock. *)
CopyInForce ==
    \A v \in Evaluators : eval[v].at = "read" =>
        Judge(eval[v].rule, eval[v].deny, eval[v].capability) \in inForce[v]

(* The inductive invariant of the policy engine. *)
PInv == PolicyTypeOK /\ TablesInForce /\ CopyInForce /\ JudgedAtOneMoment

(* Every rule and default give a verdict. *)
LEMMA JudgeType ==
    ASSUME NEW rule \in Rules \cup {NoRule}, NEW deny, NEW capability
    PROVE  Judge(rule, deny, capability) \in Verdicts
  BY Zenon DEF Judge, Rules, NoRule, Verdicts

(* The fields of a call tell in which state it is. *)
LEMMA EvalFields ==
    ASSUME PolicyTypeOK, NEW v \in Evaluators
    PROVE  /\ eval[v].at = "called" => eval[v] \in Requests
           /\ eval[v].at = "read" => eval[v] \in Readings
           /\ eval[v].at = "returned" => eval[v] \in Outcomes
           /\ eval[v] = NoEval => eval[v].at = "idle"
  <1>1. eval[v] \in {NoEval} \cup Requests \cup Readings \cup Outcomes
    BY DEF PolicyTypeOK
  <1> QED BY <1>1 DEF NoEval, Requests, Readings, Outcomes

(* A new engine has no calls. *)
LEMMA PolicyInitInv == NewEngine => PInv
  BY PolicyAssumption DEF NewEngine, PInv, PolicyTypeOK, TablesInForce, CopyInForce,
     JudgedAtOneMoment, NoEval

(* A change of the tables adds the new answer to every call under way. *)
LEMMA TableChange ==
    ASSUME PInv, rules' \in [Actions -> Rules \cup {NoRule}], defaultDeny' \in BOOLEAN,
           UNCHANGED eval, Watch, loading' \in 0 .. (Len(SafeDefaults) - 1)
    PROVE  PInv'
  <1>1. PolicyTypeOK /\ eval' = eval
    BY DEF PInv
  <1>2. ASSUME NEW v \in Evaluators
        PROVE  /\ inForce'[v] \subseteq Verdicts
               /\ inForce[v] \subseteq inForce'[v]
               /\ eval[v].at = "called" =>
                     Judge(rules'[eval[v].action], defaultDeny', eval[v].capability) \in inForce'[v]
    <2>1. inForce[v] \subseteq Verdicts
      BY <1>1 DEF PolicyTypeOK
    <2>2. ASSUME eval[v].at \in {"called", "read"}
          PROVE  Judge(rules'[eval[v].action], defaultDeny', eval[v].capability) \in Verdicts
      <3>1. eval[v].action \in Actions
        BY <1>1, <2>2, EvalFields DEF Requests, Readings
      <3> QED BY <3>1, JudgeType
    <2> QED BY <2>1, <2>2, Zenon DEF Watch
  <1>3. PolicyTypeOK'
    <2>1. inForce' \in [Evaluators -> SUBSET Verdicts]
      BY <1>2, Zenon DEF Watch
    <2> QED BY <1>1, <2>1 DEF PolicyTypeOK
  <1>4. TablesInForce'
    BY <1>1, <1>2, Zenon DEF TablesInForce
  <1>5. CopyInForce' /\ JudgedAtOneMoment'
    BY <1>1, <1>2 DEF PInv, CopyInForce, JudgedAtOneMoment
  <1> QED BY <1>3, <1>4, <1>5 DEF PInv

(* AddRule, RemoveRule, SetDefaultDeny and LoadSafeDefaults change the     *)
(* tables and nothing else.                                                *)
LEMMA TableStep ==
    ASSUME PInv,
           \/ \E a \in Actions, r \in Rules : AddRule(a, r)
           \/ \E a \in Actions : RemoveRule(a)
           \/ \E deny \in BOOLEAN : SetDefaultDeny(deny)
           \/ LoadSafeDefaults
    PROVE  PInv'
  <1>1. ASSUME NEW a \in Actions, NEW r \in Rules \cup {NoRule}, SetRule(a, r)
        PROVE  /\ rules' \in [Actions -> Rules \cup {NoRule}] /\ defaultDeny' \in BOOLEAN
               /\ UNCHANGED eval /\ Watch
    BY <1>1 DEF SetRule, PInv, PolicyTypeOK
  <1>2. ASSUME NEW a \in Actions, NEW r \in Rules \cup {NoRule}, SetRule(a, r), UNCHANGED loading
        PROVE  PInv'
    <2>1. loading' \in 0 .. (Len(SafeDefaults) - 1)
      BY <1>2 DEF PInv, PolicyTypeOK
    <2> QED BY <1>1, <1>2, <2>1, TableChange
  <1>3. ASSUME NEW deny \in BOOLEAN, SetDefaultDeny(deny) PROVE PInv'
    <2>1. /\ rules' \in [Actions -> Rules \cup {NoRule}] /\ defaultDeny' \in BOOLEAN
          /\ UNCHANGED eval /\ Watch /\ loading' \in 0 .. (Len(SafeDefaults) - 1)
      BY <1>3 DEF SetDefaultDeny, PInv, PolicyTypeOK
    <2> QED BY <2>1, TableChange
  <1>4. ASSUME LoadSafeDefaults PROVE PInv'
    <2> DEFINE n == loading + 1
    <2>1. n \in 1 .. Len(SafeDefaults) /\ n % Len(SafeDefaults) \in 0 .. (Len(SafeDefaults) - 1)
      BY PolicyAssumption DEF PInv, PolicyTypeOK
    <2>2. SafeDefaults[n].action \in Actions /\ SafeDefaults[n].rule \in Rules
      BY <2>1, PolicyAssumption DEF Rules, Verdicts
    <2>3. SetRule(SafeDefaults[n].action, SafeDefaults[n].rule)
      BY <1>4 DEF LoadSafeDefaults
    <2>4. loading' \in 0 .. (Len(SafeDefaults) - 1)
      BY <1>4, <2>1 DEF LoadSafeDefaults
    <2> QED BY <1>1, <2>2, <2>3, <2>4, TableChange
  <1> QED BY <1>2, <1>3, <1>4 DEF AddRule, RemoveRule

(* What a step of one evaluator owes, the others being untouched. *)
LEMMA EvaluatorStep ==
    ASSUME PInv, NEW v \in Evaluators, UNCHANGED <<tableVars, loading>>,
           NEW next \in {NoEval} \cup Requests \cup Readings \cup Outcomes,
           NEW answers \in SUBSET Verdicts,
           eval' = [eval EXCEPT ![v] = next], inForce' = [inForce EXCEPT ![v] = answers],
           next.at = "called" => Judge(rules[next.action], defaultDeny, next.capability) \in answers,
           next.at = "read" => Judge(next.rule, next.deny, next.capability) \in answers,
           next.at = "returned" => next.verdict \in answers
    PROVE  PInv'
  <1>1. PolicyTypeOK'
    BY DEF PInv, PolicyTypeOK, tableVars
  <1>2. /\ eval'[v] = next /\ inForce'[v] = answers
        /\ \A w \in Evaluators : w # v => eval'[w] = eval[w] /\ inForce'[w] = inForce[w]
    BY DEF PInv, PolicyTypeOK
  <1>3. TablesInForce' /\ CopyInForce' /\ JudgedAtOneMoment'
    BY <1>2, Zenon DEF PInv, TablesInForce, CopyInForce, JudgedAtOneMoment, tableVars
  <1> QED BY <1>1, <1>3 DEF PInv

(* Evaluate: called, read under the lock, judged, returned. *)
LEMMA EvaluateStep ==
    ASSUME PInv, NEW v \in Evaluators,
           \/ \E a \in Actions, c \in Capabilities : Call(v, a, c)
           \/ Read(v) \/ Decide(v) \/ Used(v)
    PROVE  PInv'
  <1>1. /\ PolicyTypeOK /\ inForce[v] \in SUBSET Verdicts
        /\ inForce = [inForce EXCEPT ![v] = inForce[v]]
    BY DEF PInv, PolicyTypeOK
  <1>2. ASSUME NEW a \in Actions, NEW c \in Capabilities, Call(v, a, c) PROVE PInv'
    <2> DEFINE next == [at |-> "called", action |-> a, capability |-> c]
               answers == {Judge(rules[a], defaultDeny, c)}
    <2>1. next \in Requests /\ next.at = "called" /\ next.action = a /\ next.capability = c
      BY DEF Requests
    <2>2. answers \in SUBSET Verdicts
      BY <1>1, JudgeType DEF PolicyTypeOK
    <2>3. /\ eval' = [eval EXCEPT ![v] = next] /\ inForce' = [inForce EXCEPT ![v] = answers]
          /\ UNCHANGED <<tableVars, loading>>
      BY <1>2, Zenon DEF Call
    <2>4. Judge(rules[next.action], defaultDeny, next.capability) \in answers
      BY <2>1
    <2> HIDE DEF next, answers
    <2> QED BY <2>1, <2>2, <2>3, <2>4, EvaluatorStep, ZenonT(30)
  <1>3. ASSUME Read(v) PROVE PInv'
    <2> DEFINE old == eval[v]
               next == [at |-> "read", action |-> old.action, capability |-> old.capability,
                        rule |-> rules[old.action], deny |-> defaultDeny]
    <2>1. old \in Requests /\ old.at = "called"
      BY <1>1, <1>3, EvalFields DEF Read
    <2>2. old.action \in Actions /\ old.capability \in Capabilities
      BY <2>1 DEF Requests
    <2>3. next \in Readings
      BY <1>1, <2>2 DEF Readings, PolicyTypeOK
    <2>4. /\ next.at = "read" /\ next.capability = old.capability
          /\ next.rule = rules[old.action] /\ next.deny = defaultDeny
      BY Zenon
    <2>5. Judge(next.rule, next.deny, next.capability) \in inForce[v]
      BY <2>1, <2>4, Zenon DEF PInv, TablesInForce
    <2>6. eval' = [eval EXCEPT ![v] = next] /\ UNCHANGED <<tableVars, loading, inForce>>
      BY <1>3 DEF Read
    <2> HIDE DEF next
    <2> QED BY <1>1, <2>3, <2>4, <2>5, <2>6, EvaluatorStep, ZenonT(30)
  <1>4. ASSUME Decide(v) PROVE PInv'
    <2> DEFINE next == [at |-> "returned", verdict |-> Judged(v),
                        audited |-> IF Judged(v) = "allow" THEN "allow" ELSE "deny"]
    <2>1. eval[v] \in Readings /\ eval[v].at = "read"
      BY <1>1, <1>4, EvalFields DEF Decide
    <2>2. Judged(v) \in Verdicts
      BY <2>1, JudgeType, Zenon DEF Judged, Readings
    <2>3. next \in Outcomes /\ next.at = "returned" /\ next.verdict = Judged(v)
      BY <2>2 DEF Outcomes
    <2>4. Judged(v) \in inForce[v]
      BY <2>1, Zenon DEF PInv, CopyInForce, Judged
    <2>5. eval' = [eval EXCEPT ![v] = next] /\ UNCHANGED <<tableVars, loading, inForce>>
      BY <1>4 DEF Decide
    <2> HIDE DEF next
    <2> QED BY <1>1, <2>3, <2>4, <2>5, EvaluatorStep, ZenonT(30)
  <1>5. ASSUME Used(v) PROVE PInv'
    <2>1. NoEval.at = "idle"
      BY DEF NoEval
    <2>2. /\ eval' = [eval EXCEPT ![v] = NoEval] /\ inForce' = [inForce EXCEPT ![v] = {}]
          /\ UNCHANGED <<tableVars, loading>>
      BY <1>5 DEF Used
    <2> QED BY <2>1, <2>2, EvaluatorStep, ZenonT(30)
  <1> QED BY <1>2, <1>3, <1>4, <1>5

(* The invariant holds of every behaviour of the engine. *)
THEOREM PolicyInductive == PolicySpec => []PInv
  <1>1. ASSUME PInv, [PolicyNext]_policyVars PROVE PInv'
    <2>1. CASE UNCHANGED policyVars
      BY <1>1, <2>1 DEF policyVars, tableVars, PInv, PolicyTypeOK, TablesInForce, CopyInForce,
         JudgedAtOneMoment
    <2> QED BY <1>1, <2>1, TableStep, EvaluateStep, SMTT(30) DEF PolicyNext
  <1> QED BY <1>1, PolicyInitInv, PTL DEF PolicySpec

(* For all rules and defaults, however they are changed meanwhile: the     *)
(* answer of Evaluate is one that the table of rules and the default gave  *)
(* together at a single moment between the call and the return.            *)
THEOREM AnswersOfOneMoment == PolicySpec => []JudgedAtOneMoment
  BY PolicyInductive, PTL DEF PInv
-----------------------------------------------------------------------------
(* Every accepted number is positive and at most maxSeen. *)
DeliveredBelowMax == \A s \in Delivered : 1 <= s /\ s <= maxSeen

(* The inductive invariant: at-most-once is inductive only together with   *)
(* the exact contents of seen and the place of the accepted numbers.       *)
IInv ==
    /\ TypeOK
    /\ AcceptedAtMostOnce
    /\ SeenIsWindow
    /\ DeliveredBelowMax
    /\ RefusalHasCause

(* A fresh tracker satisfies the inductive invariant. *)
LEMMA InitIInv == Init => IInv
<1> USE TrackerAssumption
<1> SUFFICES ASSUME Init PROVE IInv
  OBVIOUS
<1>1. Delivered = {}
  BY DEF Init, Delivered, Seqs
<1>2. TypeOK
  BY DEF Init, NewTracker, TypeOK, Seqs, Nothing
<1>3. QED
  BY <1>1, <1>2 DEF Init, NewTracker, IInv, AcceptedAtMostOnce, SeenIsWindow,
     DeliveredBelowMax, RefusalHasCause, Nothing, Seqs

(* How recording one more acceptance changes the history. *)
LEMMA RecordDelivers ==
    ASSUME NEW seq \in Seqs, TypeOK, Record(seq)
    PROVE  /\ accepted' \in [Seqs -> Nat]
           /\ Delivered' = Delivered \cup {seq}
           /\ \A s \in Seqs : accepted'[s] = IF s = seq THEN accepted[s] + 1
                                                        ELSE accepted[s]
           /\ last' = [seq |-> seq, err |-> "ok"]
<1>1. \A s \in Seqs : accepted'[s] = IF s = seq THEN accepted[s] + 1
                                                 ELSE accepted[s]
  BY DEF Record, TypeOK
<1>2. accepted' \in [Seqs -> Nat]
  BY DEF Record, TypeOK
<1>3. Delivered' = Delivered \cup {seq}
  BY <1>1, <1>2 DEF Delivered, TypeOK
<1> QED
  BY <1>1, <1>2, <1>3 DEF Record, Answer

(* Check preserves the invariant when the window slides. *)
LEMMA AdvanceIInv ==
    ASSUME IInv, NEW seq \in Seqs, Advance(seq)
    PROVE  IInv'
<1> USE TrackerAssumption
<1>0. TypeOK /\ Record(seq)
  BY DEF IInv, Advance
<1>1. /\ accepted' \in [Seqs -> Nat]
      /\ Delivered' = Delivered \cup {seq}
      /\ \A s \in Seqs : accepted'[s] = IF s = seq THEN accepted[s] + 1
                                                   ELSE accepted[s]
      /\ last' = [seq |-> seq, err |-> "ok"]
  BY <1>0, RecordDelivers
<1>2. seq \notin Delivered
  BY DEF IInv, DeliveredBelowMax, Advance, TypeOK, Seqs, Delivered
<1>3. TypeOK'
  BY <1>1, Zenon DEF IInv, TypeOK, Advance, cleanup, Seqs
<1>4. AcceptedAtMostOnce'
  BY <1>1, <1>2 DEF IInv, AcceptedAtMostOnce, Delivered, TypeOK
<1>5. DeliveredBelowMax'
  <2>1. maxSeen \in Nat /\ seq \in Nat /\ maxSeen < seq /\ maxSeen' = seq
    BY DEF IInv, Advance, TypeOK, Seqs
  <2>2. \A s \in Delivered : s \in Nat /\ 1 <= s /\ s <= maxSeen
    BY DEF IInv, DeliveredBelowMax, Delivered, Seqs
  <2>3. \A s \in Delivered' : s \in Delivered \/ s = seq
    BY <1>1
  <2>4. \A s \in Delivered' : 1 <= s /\ s <= maxSeen'
    BY <2>1, <2>2, <2>3
  <2> QED BY <2>4 DEF DeliveredBelowMax
<1>6. SeenIsWindow'
  <2>1. \A s \in Delivered : s \in Seqs /\ 1 <= s /\ s <= maxSeen
    BY DEF IInv, DeliveredBelowMax, Delivered
  <2>2. seen' = {q \in seen : seq - q <= WindowSize} \cup {seq}
    <3>1. \A q \in seen : q \in Nat
      BY DEF IInv, TypeOK, Seqs
    <3>2. seq \in Nat /\ WindowSize \in Nat
      BY DEF Seqs
    <3> QED
      BY <3>1, <3>2 DEF Advance, cleanup
  <2>3. maxSeen' = seq /\ seq > maxSeen /\ maxSeen \in Nat /\ seq \in Nat
    BY DEF Advance, IInv, TypeOK, Seqs
  <2>4. seen = {s \in Delivered : ~(maxSeen - s > WindowSize)}
    BY DEF IInv, SeenIsWindow, TooOld
  <2>5. seen' = {s \in Delivered' : ~(maxSeen' - s > WindowSize)}
    BY <1>1, <2>1, <2>2, <2>3, <2>4, SMTT(30) DEF Seqs
  <2> QED
    BY <2>5 DEF SeenIsWindow, TooOld
<1>7. RefusalHasCause'
  BY <1>1 DEF RefusalHasCause
<1> QED
  BY <1>3, <1>4, <1>5, <1>6, <1>7 DEF IInv

(* Check preserves the invariant when it fills a gap in the window: the    *)
(* number is not in seen, so by SeenIsWindow it was never accepted.        *)
LEMMA FillIInv ==
    ASSUME IInv, NEW seq \in Seqs, Fill(seq)
    PROVE  IInv'
<1> USE TrackerAssumption
<1>0. TypeOK /\ Record(seq)
  BY DEF IInv, Fill
<1>1. /\ accepted' \in [Seqs -> Nat]
      /\ Delivered' = Delivered \cup {seq}
      /\ \A s \in Seqs : accepted'[s] = IF s = seq THEN accepted[s] + 1
                                                   ELSE accepted[s]
      /\ last' = [seq |-> seq, err |-> "ok"]
  BY <1>0, RecordDelivers
<1>2. seq \notin Delivered
  BY DEF IInv, SeenIsWindow, Fill
<1>3. TypeOK'
  BY <1>1 DEF IInv, TypeOK, Fill
<1>4. AcceptedAtMostOnce'
  BY <1>1, <1>2 DEF IInv, AcceptedAtMostOnce, Delivered, TypeOK
<1>5. DeliveredBelowMax'
  BY <1>1, SMTT(30) DEF IInv, DeliveredBelowMax, Fill, TypeOK, Seqs, Delivered
<1>6. SeenIsWindow'
  BY <1>1 DEF IInv, SeenIsWindow, Fill, TooOld
<1>7. RefusalHasCause'
  BY <1>1 DEF RefusalHasCause
<1> QED
  BY <1>3, <1>4, <1>5, <1>6, <1>7 DEF IInv

(* A refusal changes nothing but the answer, and has a cause. *)
LEMMA RefuseIInv ==
    ASSUME IInv, NEW seq \in Seqs, Refuse(seq)
    PROVE  IInv'
<1>1. Delivered' = Delivered
  BY DEF Refuse, Delivered
<1>2. last' = [seq |-> seq, err |-> "ErrReplay"]
  BY DEF Refuse, Answer
<1>3. RefusalHasCause'
  BY <1>1, <1>2, SMTT(30) DEF RefusalHasCause, Refuse, IInv, SeenIsWindow, TooOld
<1> QED
  BY <1>1, <1>2, <1>3 DEF Refuse, IInv, TypeOK, AcceptedAtMostOnce,
     SeenIsWindow, DeliveredBelowMax, TooOld

(* Reset leads back to a state like the initial one. *)
LEMMA ResetIInv == ASSUME IInv, Reset PROVE IInv'
<1> USE TrackerAssumption
<1>1. Delivered' = {}
  BY DEF Reset, Delivered, Seqs
<1>2. TypeOK'
  BY DEF Reset, TypeOK, Seqs, Nothing
<1> QED
  BY <1>1, <1>2 DEF Reset, IInv, AcceptedAtMostOnce, SeenIsWindow,
     DeliveredBelowMax, RefusalHasCause, Nothing, Seqs

(* Every call on the tracker preserves the inductive invariant. *)
LEMMA StepIInv == IInv /\ [Next]_vars => IInv'
<1> SUFFICES ASSUME IInv, [Next]_vars PROVE IInv'
  OBVIOUS
<1>1. ASSUME NEW seq \in Seqs, Check(seq) PROVE IInv'
  BY <1>1, AdvanceIInv, FillIInv, RefuseIInv DEF Check
<1>2. CASE Reset
  BY <1>2, ResetIInv
<1>3. CASE UNCHANGED vars
  BY <1>3 DEF vars, IInv, TypeOK, AcceptedAtMostOnce, SeenIsWindow,
     DeliveredBelowMax, RefusalHasCause, Delivered, TooOld
<1> QED
  BY <1>1, <1>2, <1>3 DEF Next

(* The inductive invariant holds in every reachable state. *)
THEOREM Inductive == Spec => []IInv
  BY InitIInv, StepIInv, PTL DEF Spec

(* The tracker's variables keep their types. *)
THEOREM TypeCorrect == Spec => []TypeOK
<1>1. IInv => TypeOK
  BY DEF IInv
<1> QED
  BY Inductive, <1>1, PTL

(* Check never accepts one sequence number twice between two resets, for   *)
(* every window size and every range of sequence numbers.                  *)
THEOREM NoReplayAccepted == Spec => []AcceptedAtMostOnce
<1>1. IInv => AcceptedAtMostOnce
  BY DEF IInv
<1> QED
  BY Inductive, <1>1, PTL

(* Check refuses only zero, numbers it accepted before, and numbers older  *)
(* than the window.                                                        *)
THEOREM NoFreshNumberRefused == Spec => []RefusalHasCause
<1>1. IInv => RefusalHasCause
  BY DEF IInv
<1> QED
  BY Inductive, <1>1, PTL

(* cleanup keeps exactly the accepted numbers Check may be asked again. *)
THEOREM CleanupExact == Spec => []SeenIsWindow
<1>1. IInv => SeenIsWindow
  BY DEF IInv
<1> QED
  BY Inductive, <1>1, PTL

(* The tracker implements the abstract at-most-once filter. *)
THEOREM ImplementsGuard == Spec => GuardSpec
<1>1. Init => Guard!Init
  BY TrackerAssumption, SMTT(30) DEF Init, Guard!Init, Delivered, Nothing, Seqs
<1>2. IInv /\ [Next]_vars => [Guard!Next]_<<Delivered, last.err>>
  <2> SUFFICES ASSUME IInv, [Next]_vars
               PROVE  [Guard!Next]_<<Delivered, last.err>>
    OBVIOUS
  <2>1. ASSUME NEW seq \in Seqs, seq \notin Delivered, Record(seq)
        PROVE  Guard!Next
    <3>1. TypeOK
      BY DEF IInv
    <3>2. Delivered' = Delivered \cup {seq} /\ last'.err = "ok"
      BY <2>1, <3>1, RecordDelivers
    <3> QED
      BY <2>1, <3>2 DEF Guard!Next, Guard!Deliver
  <2>2. ASSUME NEW seq \in Seqs, Advance(seq) PROVE Guard!Next
    <3>1. seq \notin Delivered
      BY <2>2 DEF IInv, DeliveredBelowMax, Advance, TypeOK, Seqs, Delivered
    <3> QED
      BY <2>1, <2>2, <3>1 DEF Advance
  <2>3. ASSUME NEW seq \in Seqs, Fill(seq) PROVE Guard!Next
    <3>1. seq \notin Delivered
      BY <2>3 DEF IInv, SeenIsWindow, Fill
    <3> QED
      BY <2>1, <2>3, <3>1 DEF Fill
  <2>4. ASSUME NEW seq \in Seqs, Refuse(seq) PROVE Guard!Next
    BY <2>4 DEF Refuse, Answer, Delivered, Guard!Next, Guard!Refuse
  <2>5. CASE Reset
    BY <2>5, TrackerAssumption
       DEF Reset, Nothing, Delivered, Seqs, Guard!Next, Guard!Forget
  <2>6. CASE UNCHANGED vars
    BY <2>6 DEF vars, Delivered
  <2> QED
    BY <2>2, <2>3, <2>4, <2>5, <2>6, Zenon DEF Next, Check
<1> QED
  BY <1>1, <1>2, Inductive, PTL DEF Spec, GuardSpec, Guard!Spec

(* The library's facts about finite sets, which only the next proof needs. *)
INSTANCE FiniteSetTheorems

(* The tracker of a connection never holds more than WindowSize + 1        *)
(* numbers.                                                                *)
THEOREM BoundedMemory == Spec => []MemoryBounded
<1>1. IInv => MemoryBounded
  <2> SUFFICES ASSUME IInv PROVE MemoryBounded
    OBVIOUS
  <2>1. maxSeen \in Int /\ WindowSize \in Nat
    BY TrackerAssumption DEF IInv, TypeOK, Seqs
  <2>2. seen \subseteq (maxSeen - WindowSize) .. maxSeen
    BY <2>1 DEF IInv, SeenIsWindow, DeliveredBelowMax, TooOld, Delivered, Seqs
  <2>3. /\ IsFiniteSet((maxSeen - WindowSize) .. maxSeen)
        /\ Cardinality((maxSeen - WindowSize) .. maxSeen) = WindowSize + 1
    <3>1. maxSeen - WindowSize \in Int /\ maxSeen - WindowSize <= maxSeen
      BY <2>1
    <3> QED
      BY <2>1, <3>1, FS_Interval
  <2>4. Cardinality(seen) <= Cardinality((maxSeen - WindowSize) .. maxSeen)
    BY <2>2, <2>3, FS_Subset, Zenon
  <2> QED
    BY <2>3, <2>4 DEF MemoryBounded
<1> QED
  BY Inductive, <1>1, PTL
=============================================================================
