------------------------------- MODULE MCRunner -------------------------------
\* All scripts of up to four units, the lists of credentials worth telling apart.
EXTENDS Runner

MCScripts == UNION {[1 .. n -> Unit] : n \in 0 .. 4}
MCCredLists == {<<>>, <<"https_token", "ssh_key">>, <<"machine_user", "vault_password">>}

=============================================================================
