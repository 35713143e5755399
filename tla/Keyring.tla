------------------------------- MODULE Keyring -------------------------------
(***************************************************************************)
(* security/keyring/keyring.go: named keys with a lifetime, shared by      *)
(* goroutines.  Lookup, Generate and Rotate return the *KeyEntry that the  *)
(* map holds, so the entries are objects that stay with their holders when *)
(* the map forgets them: the map takes names to indices into entries.      *)
(* Generate and Store build their entry, expiry included, before they take *)
(* kr.mu; the other operations are one step each.                          *)
(***************************************************************************)
EXTENDS Naturals, Sequences

CONSTANTS
    Ids,        \* the ids the callers use
    Suffixes,   \* the random suffixes of Rotate's ".prev." names
    Makers,     \* goroutines that call Generate or Store
    KeyTTLs,    \* lifetimes; 0 is a key that does not expire
    MaxKeys,    \* bound: the entries ever made
    MaxNow      \* bound: the last moment

ASSUME KeyringAssumption ==
    /\ KeyTTLs \subseteq Nat /\ MaxKeys \in Nat /\ MaxNow \in Nat
    /\ "" \notin Suffixes

VARIABLES
    entries,    \* the entries in the order in which they were filed
    keys,       \* kr.keys: name -> index of an entry
    making,     \* of each maker: the entry it has built and not yet filed
    krNow,      \* time.Now()
    displaced   \* history: entries that Generate, Store or Delete pushed out

krVars == <<entries, keys, making, krNow, displaced>>

Names == Ids \X (Suffixes \cup {""})
Current(id) == <<id, "">>
NoEntry == [id |-> "none"]

KeyEntry == [id : Ids, expires : Nat, revoked : BOOLEAN]

KeyringTypeOK ==
    /\ entries \in Seq(KeyEntry)
    /\ DOMAIN keys \subseteq Names
    /\ keys \in [DOMAIN keys -> DOMAIN entries]
    /\ making \in [Makers -> KeyEntry \cup {NoEntry}]
    /\ krNow \in Nat
    /\ displaced \subseteq DOMAIN entries

NewKeyring ==
    /\ entries = <<>>
    /\ keys = <<>>
    /\ making = [m \in Makers |-> NoEntry]
    /\ krNow = 1
    /\ displaced = {}

(* &KeyEntry{...}; a zero ExpiresAt is a key without an end. *)
Entry(id, ttl) ==
    [id |-> id, expires |-> IF ttl > 0 THEN krNow + ttl ELSE 0, revoked |-> FALSE]

Expired(entry) == entry.expires # 0 /\ krNow > entry.expires
Dead(entry) == entry.revoked \/ Expired(entry)

(* Lookup returns the entry filed under a name if it is not dead. *)
Lookup(name) == IF name \in DOMAIN keys /\ ~Dead(entries[keys[name]])
                THEN keys[name] ELSE 0

(* ListActive, as indices of the entries it copies. *)
ListActive == {keys[n] : n \in {n \in DOMAIN keys : ~Dead(entries[keys[n]])}}

(* keys[name] = e, delete(keys, name), and the entry under a name, if any. *)
With(map, name, e) == [n \in DOMAIN map \cup {name} |-> IF n = name THEN e ELSE map[n]]
Without(name) == [n \in DOMAIN keys \ {name} |-> keys[n]]
At(name) == {keys[n] : n \in {name} \cap DOMAIN keys}
-----------------------------------------------------------------------------
(* Mutations of the definitions below, one per property. *)
Retire_only_moved(id) == entries
Removable_at_the_end(entry) ==
    entry.revoked \/ (entry.expires # 0 /\ krNow >= entry.expires)

(* Generate and Store up to the lock.  A refused argument, and a failing   *)
(* source of randomness, return before anything has changed.               *)
Build(m, id, ttl) ==
    /\ making[m] = NoEntry
    /\ Len(entries) < MaxKeys
    /\ making' = [making EXCEPT ![m] = Entry(id, ttl)]
    /\ UNCHANGED <<entries, keys, krNow, displaced>>

(* Under the lock: kr.keys[id] = entry, whatever was there. *)
File(m) ==
    LET id == making[m].id IN
    /\ making[m] # NoEntry
    /\ Len(entries) < MaxKeys
    /\ entries' = Append(entries, making[m])
    /\ keys' = With(keys, Current(id), Len(entries) + 1)
    /\ making' = [making EXCEPT ![m] = NoEntry]
    /\ displaced' = displaced \cup At(Current(id))
    /\ UNCHANGED krNow

Revoke(name) ==
    /\ name \in DOMAIN keys
    /\ entries' = [entries EXCEPT ![keys[name]].revoked = TRUE]
    /\ UNCHANGED <<keys, making, krNow, displaced>>

Delete(name) ==
    /\ keys' = Without(name)
    /\ displaced' = displaced \cup At(name)
    /\ UNCHANGED <<entries, making, krNow>>

(* Rotate on the key it replaces: revoked, and moved to a ".prev." name,   *)
(* where it displaces an earlier one if the random suffixes coincide.      *)
Retire(id) ==
    IF Current(id) \in DOMAIN keys
    THEN [entries EXCEPT ![keys[Current(id)]].revoked = TRUE] ELSE entries

Moved(id, suffix) ==
    IF Current(id) \in DOMAIN keys
    THEN With(Without(Current(id)), <<id, suffix>>, keys[Current(id)]) ELSE keys

Rotate(id, ttl, suffix) ==
    /\ Len(entries) < MaxKeys
    /\ entries' = Append(Retire(id), Entry(id, ttl))
    /\ keys' = With(Moved(id, suffix), Current(id), Len(entries) + 1)
    /\ UNCHANGED <<making, krNow, displaced>>

(* The random source fails for the key after it has served the suffix. *)
RotateFails(id, suffix) ==
    /\ Current(id) \in DOMAIN keys
    /\ entries' = Retire(id)
    /\ keys' = Moved(id, suffix)
    /\ UNCHANGED <<making, krNow, displaced>>

Removable(entry) == Dead(entry)

Cleanup ==
    /\ keys' = [n \in {n \in DOMAIN keys : ~Removable(entries[keys[n]])} |-> keys[n]]
    /\ UNCHANGED <<entries, making, krNow, displaced>>

Elapse ==
    /\ krNow < MaxNow
    /\ krNow' = krNow + 1
    /\ UNCHANGED <<entries, keys, making, displaced>>

KeyringNext ==
    \/ \E m \in Makers, id \in Ids, ttl \in KeyTTLs : Build(m, id, ttl)
    \/ \E m \in Makers : File(m)
    \/ \E name \in Names : Revoke(name) \/ Delete(name)
    \/ \E id \in Ids, ttl \in KeyTTLs, suffix \in Suffixes : Rotate(id, ttl, suffix)
    \/ \E id \in Ids, suffix \in Suffixes : RotateFails(id, suffix)
    \/ Cleanup
    \/ Elapse

KeyringSpec == NewKeyring /\ [][KeyringNext]_krVars
-----------------------------------------------------------------------------
(* A key that is neither revoked nor expired is within reach: it is filed  *)
(* under its own id, and ListActive lists it, so Revoke(id) stops          *)
(* everybody who holds the entry.  Only Generate and Store over it, and    *)
(* Delete, take it out of reach; Rotate and Cleanup never do.              *)
LiveKeyInReach ==
    \A e \in DOMAIN entries :
        ~Dead(entries[e]) /\ e \notin displaced =>
            /\ Lookup(Current(entries[e].id)) = e
            /\ e \in ListActive

(* What may take the key of an id out of use. *)
Retires(id) ==
    \/ Revoke(Current(id)) \/ Delete(Current(id))
    \/ \E suffix \in Suffixes : RotateFails(id, suffix)
    \/ Elapse /\ Expired(entries[keys[Current(id)]])'
    \/ \E m \in Makers : File(m) /\ making[m].id = id /\ Expired(making[m])

(* An id whose key Lookup returns goes on having one: it loses it only to  *)
(* Revoke or Delete of that name, to a Rotate that fails half way, to the  *)
(* end of the key's lifetime, or to an entry that had itself expired       *)
(* before Generate or Store filed it.                                      *)
UsableUntilRetired ==
    [][\A id \in Ids :
         Lookup(Current(id)) # 0 /\ Lookup(Current(id))' = 0 => Retires(id)]_krVars
=============================================================================
