------------------------------ MODULE KeyVault ------------------------------
(***************************************************************************)
(* What the per-domain key files promise to whoever fetches a key, without *)
(* locks, records, temporary files or separate reads: a register per       *)
(* domain that is written once, at the instant its first key is handed     *)
(* out, and handed out unchanged ever after, unless it is lost.            *)
(* KeyCustody (DpapiKeyProvider.get_key) implements it.                    *)
(***************************************************************************)
EXTENDS Integers

CONSTANTS
    Callers,    \* those who fetch a key
    Domains     \* key domains

VARIABLES
    stored,     \* per domain: 0 no key yet, -1 lost, or its key
    given       \* per caller: {}, or the one pair <<domain, key>> it was given

vaultVars == <<stored, given>>

VaultInit ==
    /\ stored = [d \in Domains |-> 0]
    /\ given = [c \in Callers |-> {}]

Give(c, d, k) == given[c] = {} /\ given' = [given EXCEPT ![c] = {<<d, k>>}]

\* No domain's register holds the key, and nobody was given it.
Unheard(k) ==
    /\ \A d \in Domains : stored[d] # k
    /\ \A c \in Callers : \A g \in given[c] : g[2] # k

\* The caller that creates a key is given the one that is kept.
First(c, d) ==
    LET k == stored'[d] IN
    /\ stored[d] = 0
    /\ k > 0 /\ Unheard(k)
    /\ stored' = [stored EXCEPT ![d] = k]
    /\ Give(c, d, k)

\* Everyone else is given that one.
Again(c, d) == stored[d] > 0 /\ Give(c, d, stored[d]) /\ UNCHANGED stored

\* A call fails after it had its key; the register keeps it.
Withdraw(c) == given[c] # {} /\ given' = [given EXCEPT ![c] = {}] /\ UNCHANGED stored

\* A lost key is never replaced by a new one.
Lose(d) == stored[d] > 0 /\ stored' = [stored EXCEPT ![d] = -1] /\ UNCHANGED given

VaultNext ==
    \/ \E d \in Domains : Lose(d)
    \/ \E c \in Callers : Withdraw(c) \/ \E d \in Domains : First(c, d) \/ Again(c, d)

VaultSpec == VaultInit /\ [][VaultNext]_vaultVars
=============================================================================
