----------------------------- MODULE ConfigMirror -----------------------------
(***************************************************************************)
(* class Config: the servers, monitors and listeners that a test creates   *)
(* in a running MaxScale with maxadmin commands, and the sets              *)
(* created_servers_ and created_monitors_ in which the harness mirrors     *)
(* them.  The harness looks at the result of no command: a command may not *)
(* arrive, and MaxScale may refuse it, while the mirror changes.           *)
(***************************************************************************)
EXTENDS Integers, FiniteSets

CONSTANTS
    N,          \* number of servers of the Master/Slave setup
    Monitors,   \* names of monitors
    MaxLost     \* bound: commands that do not arrive

Servers  == 0..(N - 1)
Services == {"rwsplit-service", "read-connection-router-master", "read-connection-router-slave"}

ASSUME ConfigAssumption == N \in Nat \ {0} /\ MaxLost \in Nat /\ Services \cap Monitors = {}

VARIABLES
    servers,           \* MaxScale: the servers that exist
    monitors,          \* MaxScale: the monitors that exist
    links,             \* MaxScale: which server is used by which service or monitor
    listeners,         \* MaxScale: the services that have their listener
    created_servers_, created_monitors_,  \* the mirror
    unborn,            \* history: servers whose last creation has not arrived
    lost               \* how many commands have not arrived

maxscale == <<servers, monitors, links, listeners>>
config == <<maxscale, created_servers_, created_monitors_, unborn, lost>>

ConfigInit ==
    /\ servers = {} /\ monitors = {} /\ links = {} /\ listeners = {}
    /\ created_servers_ = {} /\ created_monitors_ = {}
    /\ unborn = {} /\ lost = 0

-----------------------------------------------------------------------------
(* Of the commands that a call sends, those in gone do not arrive. *)
Lose(commands, gone) ==
    /\ gone \subseteq commands
    /\ lost + Cardinality(gone) <= MaxLost
    /\ lost' = lost + Cardinality(gone)

Objects(S) == {o \in Services \cup S : o \in Services \/ o \in monitors}

(* MaxScale (external) takes a server only into objects that exist, and     *)
(* gives up no server that is in use.                                       *)
InUse(n) == \E link \in links : link[1] = n

add_server(n) ==
    /\ \E gone \in SUBSET (Services \cup created_monitors_) :
          /\ Lose(Services \cup created_monitors_, gone)
          /\ links' = IF n \in servers
                      THEN links \cup ({n} \X (Objects(created_monitors_) \ gone)) ELSE links
    /\ UNCHANGED <<servers, monitors, listeners, created_servers_, created_monitors_, unborn>>

remove_server(n) ==
    /\ \E gone \in SUBSET (Services \cup created_monitors_) :
          /\ Lose(Services \cup created_monitors_, gone)
          /\ links' = links \ ({n} \X ((Services \cup created_monitors_) \ gone))
    /\ UNCHANGED <<servers, monitors, listeners, created_servers_, created_monitors_, unborn>>

add_created_servers(m) ==
    /\ \E gone \in SUBSET created_servers_ :
          /\ Lose(created_servers_, gone)
          /\ links' = IF m \in monitors
                      THEN links \cup (((created_servers_ \cap servers) \ gone) \X {m}) ELSE links
    /\ UNCHANGED <<servers, monitors, listeners, created_servers_, created_monitors_, unborn>>

destroy_server(n) ==
    /\ \E gone \in SUBSET {n} :
          /\ Lose({n}, gone)
          /\ servers' = IF InUse(n) THEN servers ELSE servers \ ({n} \ gone)
    /\ created_servers_' = created_servers_ \ {n}
    /\ UNCHANGED <<monitors, links, listeners, created_monitors_, unborn>>

create_server(n) ==
    /\ \E gone \in SUBSET {n} :
          /\ Lose({n}, gone)
          /\ servers' = servers \cup ({n} \ gone)
          /\ unborn' = (unborn \ {n}) \cup gone
    /\ created_servers_' = created_servers_ \cup {n}
    /\ UNCHANGED <<monitors, links, listeners, created_monitors_>>

(* alter_monitor and restart change no set; a new monitor has no servers. *)
create_monitor(m) ==
    /\ \E gone \in SUBSET {m} :
          /\ Lose({m}, gone)
          /\ monitors' = monitors \cup ({m} \ gone)
    /\ created_monitors_' = created_monitors_ \cup {m}
    /\ UNCHANGED <<servers, links, listeners, created_servers_, unborn>>

destroy_monitor(m) ==
    /\ \E gone \in SUBSET {m} :
          /\ Lose({m}, gone)
          /\ monitors' = monitors \ ({m} \ gone)
          /\ links' = links \ (servers \X ({m} \ gone))
    /\ created_monitors_' = created_monitors_ \ {m}
    /\ UNCHANGED <<servers, listeners, created_servers_, unborn>>

(* create_listener, create_ssl_listener and create_all_listeners. *)
create_listener(s) ==
    /\ \E gone \in SUBSET {s} : Lose({s}, gone) /\ listeners' = listeners \cup ({s} \ gone)
    /\ UNCHANGED <<servers, monitors, links, created_servers_, created_monitors_, unborn>>

destroy_listener(s) ==
    /\ \E gone \in SUBSET {s} : Lose({s}, gone) /\ listeners' = listeners \ ({s} \ gone)
    /\ UNCHANGED <<servers, monitors, links, created_servers_, created_monitors_, unborn>>

(* Defective: the servers are created and not added. *)
reset_CreatesOnly ==
    LET missing == Servers \ created_servers_
    IN  /\ \E gone \in SUBSET missing :
              /\ Lose(missing, gone)
              /\ servers' = servers \cup (missing \ gone)
              /\ unborn' = (unborn \ missing) \cup gone
        /\ created_servers_' = created_servers_ \cup missing
        /\ UNCHANGED <<monitors, links, listeners, created_monitors_>>

(* The servers that the mirror does not have are created and added, each    *)
(* before the next one.                                                     *)
reset ==
    LET missing == Servers \ created_servers_
        adds    == missing \X (Services \cup created_monitors_)
    IN  /\ \E gone \in SUBSET missing, away \in SUBSET adds :
              /\ lost + Cardinality(gone) + Cardinality(away) <= MaxLost
              /\ lost' = lost + Cardinality(gone) + Cardinality(away)
              /\ servers' = servers \cup (missing \ gone)
              /\ unborn' = (unborn \ missing) \cup gone
              /\ links' = links \cup {link \in adds \ away : link[1] \in servers' /\
                                                           link[2] \in Objects(created_monitors_)}
        /\ created_servers_' = created_servers_ \cup missing
        /\ UNCHANGED <<monitors, listeners, created_monitors_>>

ConfigNext ==
    \/ reset
    \/ \E n \in Servers :
          add_server(n) \/ remove_server(n) \/ destroy_server(n) \/ create_server(n)
    \/ \E m \in Monitors : add_created_servers(m) \/ create_monitor(m) \/ destroy_monitor(m)
    \/ \E s \in Services : create_listener(s) \/ destroy_listener(s)

ConfigSpec == ConfigInit /\ [][ConfigNext]_config

-----------------------------------------------------------------------------
(* After reset, which is to make sure that the servers exist               *)
(* (config_operations.cpp:199), every server is there, except those whose  *)
(* own creation did not arrive, although MaxScale may have refused to      *)
(* destroy some of them; and, when all its commands arrive, the servers    *)
(* that the mirror did not have are in every service and in every monitor  *)
(* that exists.  A server that the mirror had is not added to anything.    *)
ResetRestores ==
    [][reset => /\ Servers \ servers' \subseteq unborn'
                /\ lost' = lost => (Servers \ created_servers_) \X Objects(created_monitors_)
                                      \subseteq links']_config
=============================================================================
