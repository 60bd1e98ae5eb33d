-------------------------- MODULE PostpackSettings --------------------------
(***************************************************************************)
(* The tier, the tier override and the settings of post-pack clients, as   *)
(* the admin mock keeps them (postpack-tools/src/bin/                      *)
(* preconf-admin-mock.rs).  Every request changes some of the fields and   *)
(* leaves the others; a handler holds the store's lock from its first read *)
(* to its last write, so a request is one step, and a refused one is none. *)
(***************************************************************************)
EXTENDS Integers, Sequences, FiniteSets, FiniteSetsExt

CONSTANTS
    Clients,            \* API keys
    MessageTypes,
    Durations,          \* seconds of an override, as requests give them
    Updates,            \* requests to change settings: [enabled, interval, prices]
    MAX_OVERRIDE_SECONDS,
    MaxClock,           \* bound
    MaxRequests,        \* bound: requests accepted
    Unset

Tiers == {"off", "tier1"}
Units == {"message", "slot"}

Overrides == [tier : Tiers, duration : Durations]

\* What the history keeps of a request.
Requests ==
    [op : {"tier"}, key : Clients, tier : Tiers, override : {Unset} \cup Overrides, at : 0..MaxClock]
    \cup [op : {"enabled"}, key : Clients, enabled : BOOLEAN \cup {Unset}]
    \cup [op : {"off"}, key : Clients]
    \cup [op : {"settings"}, update : Updates]

ASSUME PostpackSettingsAssumption ==
    /\ Durations \subseteq Int /\ MAX_OVERRIDE_SECONDS \in Nat
    /\ \A u \in Updates : DOMAIN u.prices \subseteq MessageTypes \X Units
    /\ MaxClock \in Nat /\ MaxRequests \in Nat
    /\ Unset \notin Tiers /\ Unset \notin Overrides /\ Unset \notin Requests
    /\ Unset \notin {at + duration : at \in 0..MaxClock, duration \in Durations}

VARIABLES
    clock,
    client,         \* of each client: tier, override_tier, override_expires_at, credits_enabled
    settings,       \* credits_enabled, the charge interval, and prices by message type and unit
    requests        \* history: the requests that were accepted

settingsVars == <<clock, client, settings, requests>>

Log(request) == Len(requests) < MaxRequests /\ requests' = Append(requests, request)

-----------------------------------------------------------------------------
(* Clients. *)

NewClient == [tier |-> Unset, override_tier |-> Unset, override_expires_at |-> Unset,
              credits_enabled |-> Unset]

ClientOf(k) == IF k \in DOMAIN client THEN client[k] ELSE NewClient

SetClient(k, record) ==
    client' = [c \in DOMAIN client \cup {k} |-> IF c = k THEN record ELSE client[c]]

\* TierOverrideInput::validate.
ValidOverride(o) == o.tier # "off" /\ o.duration \in 0..MAX_OVERRIDE_SECONDS

\* set_postpack_tier: an override that is not given is kept.
SetTier(k, tier, override) ==
    /\ override # Unset => ValidOverride(override)
    /\ SetClient(k, IF override = Unset THEN [ClientOf(k) EXCEPT !.tier = tier]
                    ELSE [ClientOf(k) EXCEPT !.tier = tier, !.override_tier = override.tier,
                                             !.override_expires_at = clock + override.duration])
    /\ Log([op |-> "tier", key |-> k, tier |-> tier, override |-> override, at |-> clock])
    /\ UNCHANGED <<clock, settings>>

\* set_postpack_credits_enabled.
SetCreditsEnabled(k, enabled) ==
    /\ k \in DOMAIN client
    /\ SetClient(k, [client[k] EXCEPT !.credits_enabled = enabled])
    /\ Log([op |-> "enabled", key |-> k, enabled |-> enabled])
    /\ UNCHANGED <<clock, settings>>

\* Mutant of SwitchedOff: the override runs on.
SwitchedOffOnly(record) == [record EXCEPT !.tier = "off"]

SwitchedOff(record) ==
    [record EXCEPT !.tier = "off", !.override_tier = Unset, !.override_expires_at = Unset]

\* delete_postpack_client: the client is kept.
SwitchOff(k) ==
    /\ k \in DOMAIN client
    /\ SetClient(k, SwitchedOff(client[k]))
    /\ Log([op |-> "off", key |-> k])
    /\ UNCHANGED <<clock, settings>>

\* ClientRecord::view: the override in force.
OverrideView(k) ==
    LET c == client[k] IN
    IF c.override_tier # Unset /\ c.override_expires_at > clock
    THEN [tier |-> c.override_tier, time_left |-> c.override_expires_at - clock] ELSE Unset

-----------------------------------------------------------------------------
(* Settings. *)

\* PostpackSettings::validate.
ValidSettings(s) ==
    /\ \A m \in MessageTypes : <<m, "message">> \in DOMAIN s.prices
    /\ \A p \in DOMAIN s.prices : s.prices[p] > 0
    /\ s.interval > 0

\* PostpackSettingsUpdate::apply: only what is given changes, prices one by one.
Applied(u, s) ==
    [enabled |-> IF u.enabled = Unset THEN s.enabled ELSE u.enabled,
     interval |-> IF u.interval = Unset THEN s.interval ELSE u.interval,
     prices |-> [p \in DOMAIN s.prices \cup DOMAIN u.prices |->
                    IF p \in DOMAIN u.prices THEN u.prices[p] ELSE s.prices[p]]]

\* update_credits_settings: all of the update, or nothing.
UpdateSettings(u) ==
    /\ ValidSettings(Applied(u, settings))
    /\ settings' = Applied(u, settings)
    /\ Log([op |-> "settings", update |-> u])
    /\ UNCHANGED <<clock, client>>

ClockTicks ==
    /\ clock < MaxClock /\ clock' = clock + 1
    /\ UNCHANGED <<client, settings, requests>>

-----------------------------------------------------------------------------

StartingPrice == 10
StartingInterval == 5

SettingsInit ==
    /\ clock = 0
    /\ client = [k \in {} |-> Unset]
    /\ settings = [enabled |-> FALSE, interval |-> StartingInterval,
                   prices |-> [p \in MessageTypes \X {"message"} |-> StartingPrice]]
    /\ requests = <<>>

\* At the bound, the requests that only read.
AllServed == Len(requests) = MaxRequests /\ UNCHANGED settingsVars

SettingsNext ==
    \/ \E k \in Clients :
           \/ \E tier \in Tiers, override \in {Unset} \cup Overrides :
                  SetTier(k, tier, override)
           \/ \E enabled \in BOOLEAN \cup {Unset} : SetCreditsEnabled(k, enabled)
           \/ SwitchOff(k)
    \/ \E u \in Updates : UpdateSettings(u)
    \/ ClockTicks \/ AllServed

-----------------------------------------------------------------------------
(* Correctness. *)

SettingsTypeOK ==
    /\ DOMAIN client \subseteq Clients
    /\ \A k \in DOMAIN client :
           (client[k].override_tier = Unset) = (client[k].override_expires_at = Unset)
    /\ ValidSettings(settings)

\* The last request that a predicate holds of, Unset if there is none.
LastRequest(Holds(_)) ==
    LET those == {i \in DOMAIN requests : Holds(requests[i])} IN
    IF those = {} THEN Unset ELSE requests[Max(those)]

\* What is in force is what the last request that spoke of it asked for, whatever the others
\* changed before and since: the tier and the override until the client is switched off or the
\* override is over, whether it pays with credits also through that, each price apart.
LatestRequestsHold ==
    /\ \A k \in DOMAIN client :
           LET tier == LastRequest(LAMBDA r : r.op \in {"tier", "off"} /\ r.key = k)
               grant == LastRequest(LAMBDA r :
                   r.op \in {"tier", "off"} /\ r.key = k /\ (r.op = "tier" => r.override # Unset))
               enabled == LastRequest(LAMBDA r : r.op = "enabled" /\ r.key = k)
               left == grant.at + grant.override.duration - clock
           IN  /\ client[k].tier = IF tier.op = "off" THEN "off" ELSE tier.tier
               /\ OverrideView(k) =
                      IF grant = Unset \/ grant.op = "off" \/ left <= 0 THEN Unset
                      ELSE [tier |-> grant.override.tier, time_left |-> left]
               /\ client[k].credits_enabled = IF enabled = Unset THEN Unset ELSE enabled.enabled
    /\ \A p \in MessageTypes \X Units :
           LET set == LastRequest(LAMBDA r : r.op = "settings" /\ p \in DOMAIN r.update.prices) IN
           IF set # Unset THEN p \in DOMAIN settings.prices /\ settings.prices[p] = set.update.prices[p]
           ELSE p \in DOMAIN settings.prices => settings.prices[p] = StartingPrice
    /\ LET set == LastRequest(LAMBDA r : r.op = "settings" /\ r.update.interval # Unset) IN
       settings.interval = IF set = Unset THEN StartingInterval ELSE set.update.interval
=============================================================================
