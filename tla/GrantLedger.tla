----------------------------- MODULE GrantLedger -----------------------------
(***************************************************************************)
(* What the token endpoint promises, with no tables, clocks or statements. *)
(*                                                                         *)
(* A grant is opened for an owner and closed at most once.  A request that *)
(* finds a grant open holds a claim on it, and a claim pays for one token. *)
(* A token has at most one successor grant, which belongs to the owner of  *)
(* the grant the token came from.  Closing a grant does not cancel claims  *)
(* already held: this is the window two simultaneous requests share.       *)
(***************************************************************************)
CONSTANTS Grants, Tokens, Requests, Owners, NULL

VARIABLES
    entry,    \* grant -> [owner, from], or NULL if it was never opened
    closed,   \* the grants that yield no further claims
    claim,    \* request -> the grant it holds, or NULL
    minted    \* token -> the grant it came from, or NULL

ledger == <<entry, closed, claim, minted>>

Entry == [owner : Owners, from : Tokens \cup {NULL}]

LedgerTypeOK ==
    /\ entry \in [Grants -> Entry \cup {NULL}]
    /\ closed \subseteq Grants
    /\ claim \in [Requests -> Grants \cup {NULL}]
    /\ minted \in [Tokens -> Grants \cup {NULL}]

LedgerInit ==
    /\ entry = [g \in Grants |-> NULL]
    /\ closed = {}
    /\ claim = [r \in Requests |-> NULL]
    /\ minted = [t \in Tokens |-> NULL]

Open(g, owner) ==
    /\ entry[g] = NULL
    /\ entry' = [entry EXCEPT ![g] = [owner |-> owner, from |-> NULL]]
    /\ UNCHANGED <<closed, claim, minted>>

Claim(r, g) ==
    /\ entry[g] # NULL /\ g \notin closed
    /\ claim[r] = NULL
    /\ claim' = [claim EXCEPT ![r] = g]
    /\ UNCHANGED <<entry, closed, minted>>

Close(g) ==
    /\ entry[g] # NULL
    /\ closed' = closed \cup {g}
    /\ UNCHANGED <<entry, claim, minted>>

Mint(r, t) ==
    /\ claim[r] # NULL /\ minted[t] = NULL
    /\ minted' = [minted EXCEPT ![t] = claim[r]]
    /\ claim' = [claim EXCEPT ![r] = NULL]
    /\ UNCHANGED <<entry, closed>>

Succeed(t, g) ==
    /\ minted[t] # NULL /\ entry[g] = NULL
    /\ \A h \in Grants : entry[h] # NULL => entry[h].from # t
    /\ entry' = [entry EXCEPT ![g] =
                   [owner |-> entry[minted[t]].owner, from |-> t]]
    /\ UNCHANGED <<closed, claim, minted>>

Drop(R) ==
    /\ claim' = [r \in Requests |-> IF r \in R THEN NULL ELSE claim[r]]
    /\ UNCHANGED <<entry, closed, minted>>

LedgerNext ==
    \/ \E g \in Grants, owner \in Owners : Open(g, owner)
    \/ \E r \in Requests, g \in Grants : Claim(r, g)
    \/ \E g \in Grants : Close(g)
    \/ \E r \in Requests, t \in Tokens : Mint(r, t)
    \/ \E t \in Tokens, g \in Grants : Succeed(t, g)
    \/ \E R \in SUBSET Requests : Drop(R)

LedgerSpec == LedgerInit /\ [][LedgerNext]_ledger
=============================================================================
