------------------------- MODULE PlacementSnapshot --------------------------
(***************************************************************************)
(* Signed placement snapshots: what one document says, and when a document *)
(* may replace another.                                                    *)
(***************************************************************************)
EXTENDS Naturals

CONSTANTS None,       \* no document, no answer
          Assets,     \* provider/app/asset identities
          Places,     \* tenant, workspace, region and cell of an asset
          Keys,       \* configured trust anchors
          MaxSafe,    \* maxSafeInteger
          Documents   \* payloads with a valid signature for this directory

Entries == [epoch : 1 .. MaxSafe, place : Places,
            state : {"active", "suspended", "revoked"}]

\* No asset twice.
EntryMaps == UNION {[S -> Entries] : S \in SUBSET Assets}

NoEntries == [a \in {} |-> None]

Snapshots == [version : 1 .. MaxSafe, key : Keys, issued : Nat, expires : Nat,
              entries : EntryMaps]

ASSUME DocumentAssumption ==
  /\ MaxSafe \in Nat
  /\ Documents \subseteq Snapshots
  /\ \A d \in Documents : DOMAIN d.entries # {}

ASSUME NoneAssumption == None \notin Documents

-----------------------------------------------------------------------------
\* Wrong: an asset may be left out.
ExtendsCommon(old, new) ==
  \A a \in DOMAIN old \cap DOMAIN new :
    /\ old[a].epoch <= new[a].epoch
    /\ old[a].epoch = new[a].epoch => old[a] = new[a]

\* validateEpochs: an asset stays listed, its epoch never falls, and what is
\* said of it changes only with its epoch.
Extends(old, new) ==
  \A a \in DOMAIN old :
    /\ a \in DOMAIN new
    /\ old[a].epoch <= new[a].epoch
    /\ old[a].epoch = new[a].epoch => old[a] = new[a]
=============================================================================
