---------------------------- MODULE DaemonConfig ----------------------------
(***************************************************************************)
(* The daemon's configuration (config.rs, and the overrides of the command *)
(* line in commands/daemon.rs) and its device access list (device_acl.rs). *)
(* An optional value is a set of at most one element.  A configuration     *)
(* file is the function of the fields it sets; the fields kept are the     *)
(* ones the daemon model reads.                                            *)
(***************************************************************************)
EXTENDS Naturals, Sequences

CONSTANT HexIds    \* the texts that parse as a 16 bit hexadecimal number

Fields == {"port", "mdns_enabled", "allowed_devices", "denied_devices"}

default == [port |-> 3240, mdns_enabled |-> TRUE,
            allowed_devices |-> <<>>, denied_devices |-> <<>>]

-----------------------------------------------------------------------------
(* Config::load and its layers.  A source has the system file, the user file
   and the file named on the command line (each absent, unreadable or a
   function), the environment, and the flags of the command line. *)

\* Every field has #[serde(default)].
load_file(file) ==
    {[f \in Fields |-> IF f \in DOMAIN x THEN x[f] ELSE default[f]] : x \in file}

\* The whole of the other configuration is taken.
merge_from(config, other) == other

\* Values that do not parse are left out of env.
apply_env_overrides(config, env) ==
    [f \in Fields |-> IF f \in DOMAIN env THEN env[f] ELSE config[f]]

load(src) ==
    LET system == IF load_file(src.system) = {} THEN default
                  ELSE CHOOSE x \in load_file(src.system) : TRUE
        withUser == IF load_file(src.user) = {} THEN system
                    ELSE merge_from(system, CHOOSE x \in load_file(src.user) : TRUE)
    IN  apply_env_overrides(withUser, src.env)

\* commands::daemon::run: the flags go over the named file or the layers.
daemon_config(src) ==
    LET config == IF load_file(src.named) = {} THEN load(src)
                  ELSE CHOOSE x \in load_file(src.named) : TRUE
    IN  [f \in Fields |-> IF f \in DOMAIN src.flags THEN src.flags[f] ELSE config[f]]

-----------------------------------------------------------------------------
(* Patterns are their parts between colons.                                *)

parse_component(s) == IF s = "*" THEN {{}} ELSE IF s \in HexIds THEN {{s}} ELSE {}

parse(parts) ==
    IF Len(parts) # 2 THEN {}
    ELSE {[vendor_id |-> v, product_id |-> p] : v \in parse_component(parts[1]),
                                                p \in parse_component(parts[2])}

matches(pattern, vid, pid) ==
    /\ \A v \in pattern.vendor_id : v = vid
    /\ \A p \in pattern.product_id : p = pid

\* A malformed pattern is ignored.
Listed(patterns, vid, pid) ==
    \E i \in 1..Len(patterns) : \E pattern \in parse(patterns[i]) : matches(pattern, vid, pid)

\* Mutated form of is_device_allowed: the allow list is asked first.
is_device_allowed_AllowFirst(vid, pid, config) ==
    \/ Listed(config.allowed_devices, vid, pid)
    \/ ~Listed(config.denied_devices, vid, pid) /\ config.allowed_devices = <<>>

is_device_allowed(vid, pid, config) ==
    /\ ~Listed(config.denied_devices, vid, pid)
    /\ config.allowed_devices = <<>> \/ Listed(config.allowed_devices, vid, pid)
=============================================================================
