------------------------------ MODULE MCDaemon ------------------------------
(* Two pids, an API connection, one bus id and two device types.           *)
EXTENDS Daemon, Discover

MCTypes == {[vid |-> "0bda", pid |-> "8153"], [vid |-> "046d", pid |-> "c31c"]}
MCHexIds == {"0bda", "8153", "046d", "c31c"}

None0 == [x \in {} |-> 0]
Denies == [x \in {"denied_devices"} |-> <<<<"0bda", "*">>, <<"046d">>>>]
Both == [x \in {"allowed_devices", "denied_devices", "port"} |->
            CASE x = "allowed_devices" -> <<<<"*", "8153">>, <<"046d", "c31c">>>>
              [] x = "denied_devices" -> <<<<"zzzz", "*">>, <<"0bda", "8153">>>>
              [] x = "port" -> 3241]
Quiet == [x \in {"mdns_enabled", "port"} |-> IF x = "port" THEN 3242 ELSE FALSE]
Plain == [system |-> {}, user |-> {}, named |-> {}, env |-> None0, flags |-> None0]
MCSources == {[Plain EXCEPT !.system = {Denies}, !.user = {[x \in {"port"} |-> 3241]}, !.env = Quiet],
              [Plain EXCEPT !.named = {Both}, !.user = {Denies}, !.flags = [x \in {"port"} |-> 3243]]}

MCOthers == {[name |-> "other", words |-> {"TXT"}, addrs |-> <<-2, 3>>, port |-> 3240, devices |-> 1],
             [name |-> "lab", words |-> {"SRV"}, addrs |-> <<4>>, port |-> 3240, devices |-> 2]}
MCSelf == <<1>>
=============================================================================
