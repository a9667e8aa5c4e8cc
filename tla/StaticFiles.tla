---------------------------- MODULE StaticFiles ----------------------------
(***************************************************************************)
(* Which file a request for a static path gets, and with which headers     *)
(* (serve_static, open_representation, open_compressed, cache_control and  *)
(* is_not_modified of src/server.rs), while the document root changes:     *)
(* one open is one step, and between two opens files may be deployed,      *)
(* removed or made unreadable.                                             *)
(*                                                                         *)
(* A file is a path and an encoding: the sidecar p.br is <<p, "br">>.  Its *)
(* content is a version.  The ETag is made of inode, length and time of    *)
(* modification, which no two versions of a file and no two files share:   *)
(* it is modelled by the file and the version.  Last-Modified is precise   *)
(* to the second: Mtime says which versions share it.                      *)
(*                                                                         *)
(* An operator named Bad... is a mutant of the one after it.               *)
(***************************************************************************)
EXTENDS Naturals, Sequences, SequencesExt

CONSTANTS
  Targets,         \* what is requested: [path |-> sequence of names, slash |-> BOOLEAN]
  Preferences,     \* the qualities of br and gzip: [br |-> Nat, gzip |-> Nat]
  Files,           \* the files that may exist: pairs of a path and an encoding
  Index,           \* Config.index
  AssetsPrefix,    \* Config.assets_prefix
  Fingerprinted,   \* the names has_fingerprint accepts
  DotNames,        \* the names that start with a dot
  WellKnown,       \* the name .well-known
  HealthNames,     \* the names health and healthz
  DenyDotfiles,    \* Config.deny_dotfiles
  BrotliEnabled,   \* Config.brotli_enabled
  GzipEnabled,     \* Config.gzip_enabled
  MaxVersion,      \* bound: versions ever deployed
  Mtime,           \* the Last-Modified of each version
  Missing,         \* opening yields an error that is_not_found accepts: no file,
                   \* no permission, a symbolic link, not a regular file
  Broken           \* opening yields another error

ASSUME FilesAssumption ==
  /\ DenyDotfiles \in BOOLEAN
  /\ BrotliEnabled \in BOOLEAN
  /\ GzipEnabled \in BOOLEAN
  /\ Preferences \subseteq [br : Nat, gzip : Nat]
  /\ WellKnown \in DotNames
  /\ Index # <<>>
  /\ MaxVersion \in Nat \ {0}
  /\ Mtime \in [1..MaxVersion -> Nat \ {0}]
  /\ Missing \notin Nat
  /\ Broken \notin Nat
  /\ Missing # Broken

VARIABLES
  files,      \* what opening each file yields
  deployed,   \* the last version deployed
  pc,         \* "idle": no request; "open": files are tried; "replied"
  request,    \* the request being served
  opening,    \* the components open_representation was called with
  fallback,   \* they are those of the index, in place of a missing path
  tries,      \* the encodings it still tries, in order
  settled,    \* no file changed since the request arrived
  reply,      \* the response
  cached      \* the ETag of what a client got with 200 and keeps

filesVars == <<files, deployed, pc, request, opening, fallback, tries,
               settled, reply, cached>>

Encodings == {"identity", "br", "gzip"}

Contents == {Missing, Broken} \cup 1..MaxVersion

Content(path, encoding) ==
  IF <<path, encoding>> \in Files THEN files[<<path, encoding>>] ELSE Missing

NoETag == [file |-> <<>>, version |-> 0]

ETags == [file : Files, version : 1..MaxVersion]

\* A request; it may have the validators of what the client keeps.
Requests ==
  [target : Targets, accepts : Preferences, noneMatch : ETags \cup {NoETag},
   modifiedSince : {0} \cup {Mtime[v] : v \in 1..MaxVersion}]

NoReply == [status |-> "none"]

Serving == pc # "idle"

FilesTypeOK ==
  /\ files \in [Files -> Contents]
  /\ deployed \in 0..MaxVersion
  /\ pc \in {"idle", "open", "replied"}
  /\ Serving => request \in Requests
  /\ fallback \in BOOLEAN
  /\ tries \in Seq(Encodings)
  /\ pc = "open" => tries # <<>>
  /\ settled \in BOOLEAN
  /\ cached \in ETags \cup {NoETag}

NoRequest == [target |-> [path |-> <<>>, slash |-> FALSE],
              accepts |-> [br |-> 0, gzip |-> 0], noneMatch |-> NoETag,
              modifiedSince |-> 0]

FilesInit ==
  /\ files \in [Files -> {Missing, 1}]
  /\ deployed = 1
  /\ pc = "idle"
  /\ request = NoRequest
  /\ opening = <<>>
  /\ fallback = FALSE
  /\ tries = <<>>
  /\ settled = TRUE
  /\ reply = NoReply
  /\ cached = NoETag

-----------------------------------------------------------------------------
(* The rules. *)

\* contains_denied_dotfile
Denied(components) ==
  \E i \in 1..Len(components) :
    components[i] \in DotNames /\ ~(i = 1 /\ components[i] = WellKnown)

IsAsset(components) == IsPrefix(AssetsPrefix, components)

HasFingerprint(components) ==
  components # <<>> /\ Last(components) \in Fingerprinted

\* is_health_path
IsHealth(components) == Len(components) = 1 /\ components[1] \in HealthNames

\* The components serve_static opens first.
Target(r) ==
  IF r.target.path = <<>> \/ r.target.slash
  THEN r.target.path \o Index
  ELSE r.target.path

AcceptsBr(r) == BrotliEnabled /\ r.accepts.br > 0

AcceptsGzip(r) == GzipEnabled /\ r.accepts.gzip > 0

BadPreferBr(r) == r.accepts.br > r.accepts.gzip    \* gzip wins ties

PreferBr(r) == r.accepts.br >= r.accepts.gzip

OnlyIf(condition, encoding) == IF condition THEN <<encoding>> ELSE <<>>

\* The order in which open_representation tries the files of a path.
Order(r) ==
  OnlyIf(AcceptsBr(r) /\ PreferBr(r), "br")
    \o OnlyIf(AcceptsGzip(r), "gzip")
    \o OnlyIf(AcceptsBr(r) /\ ~PreferBr(r), "br")
    \o <<"identity">>

BadCacheControl(components, isFallback) ==    \* the index is cached as an asset
  IF ~IsAsset(components) THEN "no-cache"
  ELSE IF HasFingerprint(components) THEN "immutable" ELSE "one-hour"

CacheControl(components, isFallback) ==
  IF isFallback \/ components = Index \/ ~IsAsset(components) THEN "no-cache"
  ELSE IF HasFingerprint(components) THEN "immutable" ELSE "one-hour"

LastModified(etag) == IF etag = NoETag THEN 0 ELSE Mtime[etag.version]

BadNotModified(r, etag) ==    \* any validator will do
  \/ r.noneMatch = etag
  \/ r.modifiedSince # 0 /\ Mtime[etag.version] <= r.modifiedSince

\* is_not_modified: If-None-Match, when it is there, decides alone.
NotModified(r, etag) ==
  IF r.noneMatch # NoETag
  THEN r.noneMatch = etag
  ELSE r.modifiedSince # 0 /\ Mtime[etag.version] <= r.modifiedSince

-----------------------------------------------------------------------------
(* One request. *)

Reply(answer) ==
  /\ pc' = "replied"
  /\ reply' = answer
  /\ tries' = <<>>

Refuse(status) == Reply([status |-> status])

BadHidden(r) == DenyDotfiles /\ Denied(SubSeq(Target(r), 1, 1))

Hidden(r) == DenyDotfiles /\ Denied(Target(r))

\* Call open_representation for these components.
StartOpening(components, isFallback, r) ==
  /\ pc' = "open"
  /\ opening' = components
  /\ fallback' = isFallback
  /\ tries' = Order(r)
  /\ reply' = NoReply

\* A request arrives.
Receive(r) ==
  /\ pc = "idle"
  /\ request' = r
  /\ settled' = TRUE
  /\ \/ /\ IsHealth(r.target.path)
        /\ Reply([status |-> "health"]) /\ UNCHANGED <<opening, fallback>>
     \/ /\ ~IsHealth(r.target.path) /\ Hidden(r)
        /\ Refuse("404") /\ UNCHANGED <<opening, fallback>>
     \/ /\ ~IsHealth(r.target.path) /\ ~Hidden(r)
        /\ StartOpening(Target(r), FALSE, r)
  /\ UNCHANGED <<files, deployed, cached>>

Trying == Content(opening, Head(tries))

\* No sidecar with this encoding: open_compressed returned None.
SkipSidecar ==
  /\ pc = "open"
  /\ Head(tries) # "identity"
  /\ Trying = Missing
  /\ tries' = Tail(tries)
  /\ UNCHANGED <<files, deployed, pc, request, opening, fallback, settled, reply, cached>>

BadMayFallBack == ~fallback    \* for assets as well

MayFallBack ==
  /\ ~fallback
  /\ ~IsAsset(request.target.path)
  /\ ~(DenyDotfiles /\ Denied(Index))

\* No such file at all.  A path that is no asset gets the index instead.
FileMissing ==
  /\ pc = "open"
  /\ Head(tries) = "identity"
  /\ Trying = Missing
  /\ IF MayFallBack
     THEN StartOpening(Index, TRUE, request)
     ELSE Refuse("404") /\ UNCHANGED <<opening, fallback>>
  /\ UNCHANGED <<files, deployed, request, settled, cached>>

\* Any other error ends the search (or the metadata cannot be read).
FileBroken ==
  /\ pc = "open"
  /\ Trying = Broken
  /\ Refuse("500")
  /\ UNCHANGED <<files, deployed, request, opening, fallback, settled, cached>>

\* The file is open: what the response says of it is read from the open file.
FileOpened ==
  /\ pc = "open"
  /\ Trying \in 1..MaxVersion
  /\ LET etag == [file |-> <<opening, Head(tries)>>, version |-> Trying]
     IN Reply([status    |-> IF NotModified(request, etag) THEN "304" ELSE "200",
               etag      |-> etag,
               path      |-> opening,
               encoding  |-> Head(tries),
               cacheable |-> CacheControl(opening, fallback)])
  /\ UNCHANGED <<files, deployed, request, opening, fallback, settled, cached>>

\* The client takes the response, and keeps what it got, or forgets it.
Finish ==
  /\ pc = "replied"
  /\ pc' = "idle"
  /\ cached' \in {NoETag, IF reply.status = "200" THEN reply.etag ELSE cached}
  /\ request' = NoRequest
  /\ opening' = <<>>
  /\ fallback' = FALSE
  /\ reply' = NoReply
  /\ UNCHANGED <<files, deployed, tries, settled>>

\* A deployment, or whoever else owns the document root, changes a file.
ChangeFile(file) ==
  /\ deployed < MaxVersion
  /\ deployed' = deployed + 1
  /\ \E content \in {Missing, Broken, deployed'} :
       files' = [files EXCEPT ![file] = content]
  /\ settled' = FALSE
  /\ UNCHANGED <<pc, request, opening, fallback, tries, reply, cached>>

FilesNext ==
  \/ \E t \in Targets, a \in Preferences, e \in {NoETag, cached},
        m \in {0, LastModified(cached)} :
       Receive([target |-> t, accepts |-> a, noneMatch |-> e, modifiedSince |-> m])
  \/ SkipSidecar
  \/ FileMissing
  \/ FileBroken
  \/ FileOpened
  \/ Finish
  \/ \E file \in Files : ChangeFile(file)

FilesSpec == FilesInit /\ [][FilesNext]_filesVars

-----------------------------------------------------------------------------
(* Properties. *)

Found == reply.status \in {"200", "304"}

\* README.md:20: a dotfile is never served, nor by a trailing slash, by
\* the index or by the fallback to it; .well-known is allowed at the root only.
DotfilesDenied == DenyDotfiles /\ Found => ~Denied(reply.path)

\* README.md:11: a missing asset is never answered with the index, whose
\* content a cache would keep under the name of the asset.
AssetsNeverFallBack ==
  Found /\ IsAsset(request.target.path) => reply.path = Target(request)

\* What is immutable for a year is the fingerprinted asset that was asked for;
\* the index is always revalidated, by whatever path it was reached.
CachedSafely ==
  Found =>
    /\ reply.cacheable = "immutable"
         => /\ reply.path = Target(request)
            /\ IsAsset(reply.path)
            /\ HasFingerprint(reply.path)
    /\ reply.path = Index => reply.cacheable = "no-cache"

\* A 304 to a client that sends the ETag it has is the truth: it has what it
\* would have got, in this version and this encoding, even if it sends a
\* Last-Modified as well, which another version may share.
NotModifiedIsTrue ==
  reply.status = "304" /\ request.noneMatch # NoETag => reply.etag = cached

\* The encodings a path has, and the best of those the request accepts.
Quality(encoding) ==
  CASE encoding = "br" -> IF BrotliEnabled THEN request.accepts.br ELSE 0
    [] encoding = "gzip" -> IF GzipEnabled THEN request.accepts.gzip ELSE 0
    [] OTHER -> 0

Available(path) == {e \in Encodings : Content(path, e) # Missing}

Best(path, encoding) ==
  \A e \in Available(path) :
    \/ Quality(e) < Quality(encoding)
    \/ Quality(e) = Quality(encoding) /\ (e = encoding \/ e = "gzip" \/ Quality(e) = 0)

\* README.md:15: quality values are respected and brotli wins ties.  If no
\* file changed meanwhile, no better representation of the path was there.
BestServed == Found /\ settled => Best(reply.path, reply.encoding)

\* If no file changed meanwhile, a 404 means that there is nothing to serve:
\* neither the path nor, for a path that is no asset, the index.
NotFoundIsTrue ==
  reply.status = "404" /\ settled =>
    \/ Hidden(request)
    \/ /\ Content(Target(request), "identity") = Missing
       /\ \/ IsAsset(request.target.path)
          \/ DenyDotfiles /\ Denied(Index)
          \/ Content(Index, "identity") = Missing

\* The fallback to the index is taken where it is due and nowhere else: for a
\* path that is missing, and never for an asset.
FallbackIsRight == AssetsNeverFallBack /\ NotFoundIsTrue
=============================================================================
