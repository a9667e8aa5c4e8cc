--------------------------- MODULE MCStaticFiles ---------------------------
(* A small site for the runs of StaticFiles. *)
EXTENDS StaticFiles

\* An index among the assets, with a fingerprint in its name: the configuration
\* allows it, and it must not be cached like one of them.
MCIndex == <<"assets", "index">>
MCAssets == <<"assets">>
MCAsset == <<"assets", "app">>
MCHashed == <<"assets", "hashed">>
MCRoute == <<"route">>
MCHidden == <<"assets", ".well-known">>

At(path) == [path |-> path, slash |-> FALSE]

MCTargets == {At(<<>>), At(<<"health">>), At(MCAsset), At(MCHashed), At(MCRoute),
              At(MCHidden), At(MCIndex),
              [path |-> <<"assets">>, slash |-> TRUE]}

Accepting(br, gzip) == [br |-> br, gzip |-> gzip]

MCPreferences == {Accepting(0, 0), Accepting(1, 1), Accepting(1, 2), Accepting(0, 1)}

MCFiles == {<<MCIndex, "identity">>, <<MCIndex, "br">>,
            <<MCHashed, "identity">>, <<MCHashed, "br">>, <<MCHashed, "gzip">>,
            <<MCHidden, "identity">>}

MCFingerprinted == {"hashed", "index"}
MCDotNames == {".env", ".well-known"}
MCHealth == {"health"}

\* Both versions were modified in the same second.
MCMtime == <<2, 2>>
=============================================================================
