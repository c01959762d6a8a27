--------------------------- MODULE AddressSpaces ----------------------------
(* What the users of the page tables rely on: address spaces that map      *)
(* virtual pages one at a time, each on its own.                           *)
CONSTANTS Root, Vpn, Entry, NoEntry

VARIABLE space      \* the entries of each address space there is

Empty == [v \in Vpn |-> NoEntry]

Init == space = [r \in {} |-> Empty]

Create(r) ==
    /\ r \notin DOMAIN space
    /\ space' = [s \in DOMAIN space \union {r} |->
                     IF s = r THEN Empty ELSE space[s]]

(* What is mapped is never overwritten.                                    *)
Map(r, v) ==
    /\ space[r][v] = NoEntry
    /\ space'[r][v] \in Entry
    /\ space' = [space EXCEPT ![r][v] = space'[r][v]]

Unmap(r, v) ==
    /\ space[r][v] # NoEntry
    /\ space' = [space EXCEPT ![r][v] = NoEntry]

Destroy(r) == space' = [s \in DOMAIN space \ {r} |-> space[s]]

Next ==
    \/ \E r \in Root : Create(r)
    \/ \E r \in DOMAIN space :
           Destroy(r) \/ \E v \in Vpn : Map(r, v) \/ Unmap(r, v)

Spec == Init /\ [][Next]_space
=============================================================================
