---------------------------- MODULE MCStorybook ----------------------------
(* Three groups, at most one in the toolbar; a story without decorators, a *)
(* story with one, and one that overrides its component's decorator.       *)
EXTENDS Storybook, TLC

CONSTANTS platform, runtime, tier, desktop, mobile, server, free,
          plain, phone, nested

Of(p, r, t) == platform :> p @@ runtime :> r @@ tier :> t

(* With the toolbar, and without it. *)
MCConfigs ==
  {platform :> [values |-> {desktop, mobile}, defaultValue |-> desktop],
   [g \in {} |-> g]}

MCOwn ==
  plain :> <<>>
  @@ phone :> <<Of(mobile, server, Absent)>>
  @@ nested :> <<Of(mobile, Undefined, free), Of(desktop, Absent, Undefined)>>
=============================================================================
