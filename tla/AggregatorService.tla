------------------------- MODULE AggregatorService -------------------------
(***************************************************************************)
(* The program aggregator_service: its configuration                       *)
(* (loadAggregatorConfig), the wait for the hosts of its feeds             *)
(* (feed_wait.cpp) and main(), from start-up to shutdown.  BookStream      *)
(* composes it with the handlers main() serves and with a client.          *)
(*                                                                         *)
(* A JSON object is a function whose domain is the set of its well-typed   *)
(* members.  A url is the host in it, or NoHost when it cannot be parsed   *)
(* or names none.                                                          *)
(***************************************************************************)
EXTENDS Integers, SequencesExt

CONSTANTS Document,       \* the JSON documents that may be found
          Environment,    \* values of HERMENEUTIC_WAIT_FOR_FEEDS, "" when unset
          NoHost

\* The feeds of a document are a JSON array.
ASSUME DocumentAssumption ==
    \A document \in Document : "feeds" \in DOMAIN document => Len(document.feeds) \in Nat

VARIABLES
    main,        \* pc of main()
    g_running,
    environment,
    config,      \* main()'s configuration, or NoConfig
    hosts,       \* waitForFeedHosts(): the hosts still to wait for
    engine,      \* "none", "running" or "stopped"
    feeding,     \* feeds started and not stopped
    resolved     \* history: the hosts that have been resolved

program == <<main, g_running, environment, config, hosts, engine, feeding, resolved>>

Ended == {"returned", "failed", "killed"}
Serving == {"feeds", "loop", "stopFeeds"}

-----------------------------------------------------------------------------
(* Configuration.                                                          *)

Optional(object, key, default) == IF key \in DOMAIN object THEN object[key] ELSE default

Throws(document) ==
    \/ ~({"grpc", "feeds"} \subseteq DOMAIN document)
    \/ \E k \in 1 .. Len(document.feeds) :
          ~({"name", "url"} \subseteq DOMAIN document.feeds[k])

FeedConfig(feed) == [name |-> feed.name, url |-> feed.url,
                     auth_token |-> Optional(feed, "auth_token", "")]

NoConfig == [symbol |-> "BTCUSDT", auth_token |-> "", feeds |-> <<>>]

LoadAggregatorConfig(document) ==
    [symbol |-> Optional(document, "symbol", NoConfig.symbol),
     auth_token |-> Optional(document.grpc, "auth_token", NoConfig.auth_token),
     feeds |-> [k \in 1 .. Len(document.feeds) |-> FeedConfig(document.feeds[k])]]

\* Values are compared without white space and in lower case.
ShouldWaitForFeeds(value) == value \notin {"0", "false", "no", "off"}

CollectFeedHosts(feeds) ==
    LET add(found, feed) ==
            IF feed.url = NoHost \/ Contains(found, feed.url)
            THEN found ELSE Append(found, feed.url)
    IN  FoldLeft(add, <<>>, feeds)

ProgramInit ==
    /\ main = "load" /\ g_running = TRUE /\ environment \in Environment
    /\ config = NoConfig /\ hosts = <<>> /\ engine = "none"
    /\ feeding = 0 /\ resolved = {}

-----------------------------------------------------------------------------
(* Start-up.                                                               *)

\* main.cpp:43-51: an exception ends main(); then signals are handled.
LoadConfig(document) ==
    /\ main = "load"
    /\ IF Throws(document)
       THEN main' = "failed" /\ UNCHANGED <<config, hosts>>
       ELSE /\ config' = LoadAggregatorConfig(document)
            /\ hosts' = CollectFeedHosts(config'.feeds)
            /\ main' = IF ShouldWaitForFeeds(environment) THEN "wait" ELSE "configure"
    /\ UNCHANGED <<g_running, environment, engine, feeding, resolved>>

\* feed_wait.cpp:81-82: the next attempt, unless nothing is left or wanted.
Attempt ==
    /\ main = "wait"
    /\ main' = IF hosts # <<>> /\ g_running THEN "resolve" ELSE "waited"
    /\ UNCHANGED <<g_running, environment, config, hosts, engine, feeding, resolved>>

\* The resolver answers.
Resolve ==
    /\ main = "resolve"
    /\ \/ main' = "found" /\ resolved' = resolved \cup {Head(hosts)}
       \/ main' = "retry" /\ UNCHANGED resolved
    /\ UNCHANGED <<g_running, environment, config, hosts, engine, feeding>>

\* Fault: the retry delay is not followed by a look at running.
RetryRegardless ==
    /\ main = "retry" /\ main' = "resolve"
    /\ UNCHANGED <<g_running, environment, config, hosts, engine, feeding, resolved>>

\* Lines 88-94.
Retry ==
    /\ main = "retry"
    /\ main' = IF g_running THEN "wait" ELSE "waited"
    /\ UNCHANGED <<g_running, environment, config, hosts, engine, feeding, resolved>>

\* Lines 84-87 and 96-99: the next host, unless the wait is interrupted.
NextHost ==
    /\ main = "found"
    /\ IF g_running THEN main' = "wait" /\ hosts' = Tail(hosts)
                    ELSE main' = "waited" /\ UNCHANGED hosts
    /\ UNCHANGED <<g_running, environment, config, engine, feeding, resolved>>

\* Fault: main() starts up after an interrupted wait.
StartAnyway ==
    /\ main = "waited" /\ main' = "configure"
    /\ UNCHANGED <<g_running, environment, config, hosts, engine, feeding, resolved>>

\* main.cpp:63-66.
AfterWait ==
    /\ main = "waited"
    /\ main' = IF g_running THEN "configure" ELSE "returned"
    /\ UNCHANGED <<g_running, environment, config, hosts, engine, feeding, resolved>>

StartEngine ==
    /\ main = "configure"
    /\ main' = "serve" /\ engine' = "running"
    /\ UNCHANGED <<g_running, environment, config, hosts, feeding, resolved>>

\* Lines 78-90: the port may be taken; then the destructor stops the engine.
BuildAndStart ==
    /\ main = "serve"
    /\ \/ main' = "feeds" /\ UNCHANGED engine
       \/ main' = "failed" /\ engine' = "stopped"
    /\ UNCHANGED <<g_running, environment, config, hosts, feeding, resolved>>

\* Lines 92-107: feeds are started one after the other.
StartFeed ==
    /\ main = "feeds"
    /\ IF feeding < Len(config.feeds)
       THEN feeding' = feeding + 1 /\ UNCHANGED main
       ELSE main' = "loop" /\ UNCHANGED feeding
    /\ UNCHANGED <<g_running, environment, config, hosts, engine, resolved>>

-----------------------------------------------------------------------------
(* Shutdown.                                                               *)

\* A signal ends the process while no handler for it is installed.
Signal ==
    /\ g_running /\ main \notin Ended
    /\ IF main = "load" THEN main' = "killed" /\ UNCHANGED g_running
                        ELSE g_running' = FALSE /\ UNCHANGED main
    /\ UNCHANGED <<environment, config, hosts, engine, feeding, resolved>>

LeaveLoop ==
    /\ main = "loop" /\ ~g_running
    /\ main' = "stopFeeds"
    /\ UNCHANGED <<g_running, environment, config, hosts, engine, feeding, resolved>>

\* Each stop() returns: ExchangeFeed.  Then the server is shut down.
StopFeeds ==
    /\ main = "stopFeeds"
    /\ feeding' = 0 /\ main' = "Shutdown"
    /\ UNCHANGED <<g_running, environment, config, hosts, engine, resolved>>

\* Shutdown() has no deadline and waits for every handler.
ShutdownReturn(handlersReturned) ==
    /\ main = "Shutdown" /\ handlersReturned
    /\ main' = "stopEngine"
    /\ UNCHANGED <<g_running, environment, config, hosts, engine, feeding, resolved>>

\* The destructor's stop() joins the engine's threads.
StopEngine(threadsEnd) ==
    /\ main = "stopEngine" /\ threadsEnd
    /\ main' = "returned" /\ engine' = "stopped"
    /\ UNCHANGED <<g_running, environment, config, hosts, feeding, resolved>>

\* The steps of main() that wait for nobody.
MainStep ==
    \/ \E document \in Document : LoadConfig(document)
    \/ Attempt \/ Resolve \/ Retry \/ NextHost \/ AfterWait
    \/ StartEngine \/ BuildAndStart \/ StartFeed
    \/ LeaveLoop \/ StopFeeds

=============================================================================
