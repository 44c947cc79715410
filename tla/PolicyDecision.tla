--------------------------- MODULE PolicyDecision ---------------------------
(***************************************************************************)
(* The access decision as a function of the rows it consults.  Both        *)
(* surfaces of Orivis use it: /oauth2/authorize and forward-auth.          *)
(***************************************************************************)
EXTENDS Integers, Sequences

CONSTANTS Platforms, NULL

\* An override's decision column is free text; anything but these two is inherit.
Decisions == {"allow", "deny", "inherit"}
Decisive(decision) == decision \in {"allow", "deny"}

\* The mode column is free text too: "other" stands for what the switch has no
\* case for.
Modes == {"allow_any", "allowlist", "denylist", "other"}
PolicyRow == [mode : Modes, entries : SUBSET Platforms]

Verdict == [allowed : BOOLEAN,
            reason : {"user_override_deny", "user_override_allow",
                      "group_override_deny", "group_override_allow",
                      "allowed", "platform_allowlist_missing",
                      "platform_denylist", "tenant_default_deny"}]

Allow(reason) == [allowed |-> TRUE, reason |-> reason]
Deny(reason) == [allowed |-> FALSE, reason |-> reason]

UserVerdict(decision) ==
    IF decision = "deny" THEN Deny("user_override_deny")
                         ELSE Allow("user_override_allow")

GroupVerdict(decision) ==
    IF decision = "deny" THEN Deny("group_override_deny")
                         ELSE Allow("group_override_allow")

\* row is NULL when there is none, or when it could not be read.
PlatformVerdict(row, platform) ==
    CASE row = NULL -> Deny("tenant_default_deny")
      [] row # NULL /\ row.mode = "allow_any" -> Allow("allowed")
      [] row # NULL /\ row.mode = "allowlist" ->
           IF platform \in row.entries THEN Allow("allowed")
                                       ELSE Deny("platform_allowlist_missing")
      [] row # NULL /\ row.mode = "denylist" ->
           IF platform \in row.entries THEN Deny("platform_denylist")
                                       ELSE Allow("allowed")
      [] row # NULL /\ row.mode = "other" -> Deny("tenant_default_deny")

\* The first group, in the order of the group names, with something to say.
FirstDecisive(decisions) ==
    LET decisive == {i \in DOMAIN decisions : Decisive(decisions[i])} IN
    IF decisive = {} THEN NULL
    ELSE decisions[CHOOSE i \in decisive : \A j \in decisive : i <= j]

\* The whole of evaluatePolicy, if every row were read at one instant.
evaluatePolicy(user, groups, row, platform) ==
    IF Decisive(user) THEN UserVerdict(user)
    ELSE IF FirstDecisive(groups) # NULL THEN GroupVerdict(FirstDecisive(groups))
    ELSE PlatformVerdict(row, platform)

\* The precedence the policy documentation recommends: a deny of any group
\* comes before an allow of any other.
DocumentedDecision(user, groups, row, platform) ==
    LET said == {groups[i] : i \in DOMAIN groups} IN
    CASE Decisive(user) -> UserVerdict(user)
      [] ~ Decisive(user) /\ "deny" \in said -> Deny("group_override_deny")
      [] ~ Decisive(user) /\ "deny" \notin said /\ "allow" \in said ->
           Allow("group_override_allow")
      [] OTHER -> PlatformVerdict(row, platform)
=============================================================================
