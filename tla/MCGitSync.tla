------------------------------ MODULE MCGitSync ------------------------------
\* The repositories of the GitSync run.  Two commits and two inventory paths make up four
\* files: one that can be stored, one without hosts, one with a host in no group, none at all.
EXTENDS GitSync

CONSTANTS web, db

MCCommits == {1, 2}
MCPaths == {"hosts.ini", "old.ini"}
MCFiles == {"one", "hostless", "ungrouped", "missing"}
MCFileAt == [at \in MCCommits \X MCPaths |->
               CASE at = <<1, "hosts.ini">> -> "one"
                 [] at = <<2, "hosts.ini">> -> "hostless"
                 [] at = <<1, "old.ini">> -> "ungrouped"
                 [] at = <<2, "old.ini">> -> "missing"]
MCUnparsable == {"missing"}
MCHostsOf == [f \in MCFiles |-> CASE f = "one" -> {web} [] f = "ungrouped" -> {web, db} [] OTHER -> {}]
MCUngrouped == [f \in MCFiles |-> IF f = "ungrouped" THEN {db} ELSE {}]

=============================================================================
