----------------------------- MODULE MCResponse -----------------------------
(* Environments for the run of Startup and Response: at most Deviations of the
   variables read so far are set to something else than Plain says. *)
EXTENDS Response

Deviations == 2

Plain(v) == IF v = "ROOT" THEN "absolute" ELSE Unset

Numbers(max) == {Unset, NotUtf8, 0, 1, max, max + 1}

Words == {Unset, NotUtf8, "0", "yes", "junk"}

Headers(n) == [i \in 1..n |-> "x"]

Upto(n, symbols) == UNION {[1..m -> symbols] : m \in 0..n}

Names == {"", "x", "allow", "cache-control", "vary", "content-length", "malformed"}

\* The values next to the limits, every short path and every pair of headers.
Values(v) ==
  CASE v = "LISTEN_ADDR" -> {Unset, NotUtf8, "an address", "junk"}
    [] v = "ROOT" -> {Unset, "relative", "absolute"}
    [] v = "THREADS" -> Numbers(MaxThreads)
    [] v = "QUEUE_SIZE" -> Numbers(MaxQueueSize)
    [] v \in {"REQUEST_TIMEOUT_SECS", "SHUTDOWN_TIMEOUT_SECS"} -> Numbers(MaxTimeout)
    [] v \in {"GZIP", "BROTLI", "DENY_DOTFILES"} -> Words
    [] v = "EXTRA_HEADERS" ->
         {NotUtf8, Headers(32), Headers(33), Headers(32) \o <<"">>} \cup Upto(2, Names)
    [] v = "INDEX" -> {Unset} \cup Upto(4, {"/", ".", "a", "\\"})
    [] v = "ASSETS_PATH" -> {Unset} \cup Upto(4, {"/", ".", "a"})

Deviating(values) == {v \in DOMAIN values : values[v] # Plain(v)}

MCRawValues(v, before) ==
  CASE v \in {"INDEX", "ASSETS_PATH"} /\ Deviating(before) # {} -> {Unset}
    [] v = "EXTRA_HEADERS" /\ Deviating(before) \subseteq {"GZIP", "BROTLI"} -> Values(v)
    [] Deviating(before) \cap {"INDEX", "ASSETS_PATH"} # {} -> {Plain(v)}
    [] Cardinality(Deviating(before)) >= Deviations -> {Plain(v)}
    [] OTHER -> Values(v)
=============================================================================
