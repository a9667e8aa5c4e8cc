------------------------------ MODULE MCRootWalk ------------------------------
(* A document root with a directory, and a link that leads out of it. *)
EXTENDS RootWalk, TLC

CONSTANTS root, old, new, out, page, secret, hidden, toDir, toFile, pipe, a, b

MCDirs == {root, old, new, out}
MCFiles == {page, secret, hidden}
MCLinks == {toDir, toFile}
MCFifos == {pipe}
MCTarget == (toDir :> out) @@ (toFile :> secret)
MCInside == {root, old, new, page, hidden, toDir, toFile, pipe}

Dir(x, y) == (a :> x) @@ (b :> y)

MCInitial == {(root :> Dir(old, toFile)) @@ (old :> Dir(page, toDir))
                @@ (new :> Dir(None, page)) @@ (out :> Dir(secret, secret)),
              (root :> Dir(toDir, pipe)) @@ (old :> Dir(new, hidden))
                @@ (new :> Dir(page, None)) @@ (out :> Dir(secret, out))}

MCPaths == {<<>>, <<a>>, <<b>>, <<a, a>>, <<a, b>>, <<a, a, b>>}

MCScopes == {{root}, {root, old}}
=============================================================================
