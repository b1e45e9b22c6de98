----------------------------- MODULE MCInventory -----------------------------
\* Lists of fields that name a key twice, the address of the host, or nothing.
EXTENDS Inventory

MCNames == {"a", "b"}
MCKeys == {"ansible_host", "x"}
MCValues == MCNames \cup {"1", "2"}
MCFields == {<<>>, <<<<"x", "1">>>>, <<<<"x", "1">>, <<"x", "2">>>>, <<<<"ansible_host", "1">>>>}

=============================================================================
