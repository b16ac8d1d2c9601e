---------------------------- MODULE MC_VfsNames ----------------------------
EXTENDS VfsNames, TLC

CONSTANTS p1, p2, v0, v1, v2, v3

MCProcs == {p1, p2}
OneProc == {p1}
MCVnodes == {v0, v1, v2, v3}
SlotSym == Permutations({v1, v2, v3})

\* Six components: two ordinary names, "." and "..", one of exactly
\* NAME_LEN characters and one longer.
MCNames == {"a", "b", ".", "..", "L", "T"}
MCNameLen == [n \in MCNames |-> CASE n = "L" -> 3 [] n = "T" -> 4
                                  [] n = ".." -> 2 [] OTHER -> 1]

\* The paths the calls are given: relative and absolute, through a
\* directory, ending in "/", with a doubled slash, ".." and ".", the empty
\* path and the two long names.
MCPaths == {<<>>, <<"/">>, <<"a">>, <<"b">>, <<"/", "a">>, <<"a", "/">>,
            <<"a", "/", "b">>, <<"a", "/", "/", "b">>, <<"..">>, <<".">>,
            <<"a", "/", "..">>, <<"L">>, <<"T", "/", "a">>}
MCLinkPaths == {<<"a">>, <<"b">>, <<"a", "/", "b">>}

\* open_namev is compared with the reference on every path of up to three
\* tokens over "/", "a", "..", "L" and "T" in which no two names touch.
Tokens == {"/", "a", "..", "L", "T"}
NoTouch(s) == \A i \in 1..(Len(s) - 1) : s[i] = "/" \/ s[i + 1] = "/"
MCProbePaths == {s \in BoundedSeq(Tokens, 3) : NoTouch(s)}
=============================================================================
