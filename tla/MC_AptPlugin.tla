----------------------------- MODULE MC_AptPlugin -----------------------------
EXTENDS AptPlugin

CONSTANTS none

MC_PkgNames    == {"vim", "zsh"}
MC_Versions    == {"1", "2", "latest"}
\* A name with an unbalanced parenthesis does not compile as a Regex.
MC_BadRegex    == {"zsh("}
MC_Maintainers == {<<"Deb", "Team">>, <<>>}

\* dpkg-query lines: version 1 installed, or not; want install, hold (apt-mark
\* hold) or deinstall (marked for removal); with or without a maintainer.
MC_Packages(n) ==
    [name : {n}, version : {"1"}, maint : MC_Maintainers,
     want : {"install", "hold", "deinstall"}, status : {"installed", "config-files"}]
MC_Databases ==
    {<<>>} \cup {<<p>> : p \in MC_Packages("zsh")}
      \cup {<<p, q>> : p \in MC_Packages("vim"), q \in MC_Packages("zsh")}

Op(k, n, m, mod, v, f) ==
    [kind |-> k, name |-> n, maintainer |-> m, module |-> mod, version |-> v, path |-> f]
MC_Ops ==
    {Op("list", n, m, none, none, none) :
        n \in {none, "zsh", "zsh("}, m \in {none, <<>>, <<"Deb">>}}
    \cup {Op("install", none, none, mod, v, f) :
            mod \in MC_PkgNames, v \in {none, "1"}, f \in {none, "deb"}}
    \cup {Op("remove", none, none, "zsh", v, none) : v \in {none, "1"}}
    \cup {Op(k, none, none, none, none, none) :
            k \in {"prepare", "finalize", "update-list", "cli_error"}}

\* tedge.toml: no [apt] filters, a name filter, or a maintainer filter.
MC_Configs ==
    {none, [name |-> none, maintainer |-> none, dpk |-> "confnew"],
     [name |-> "zsh", maintainer |-> none, dpk |-> "confold"],
     [name |-> none, maintainer |-> <<"Deb">>, dpk |-> "confnew"]}

MC_DebFile == [name |-> "zsh", version |-> "1"]

=============================================================================
