----------------------------- MODULE MCBootstrap -----------------------------
(* Command lines of the bootstrap script for two environments, of which only *)
(* the first has a cluster with the name that kubeconfig expects.           *)
EXTENDS Bootstrap

CONSTANTS dev, prod

Line(cmd, env, opts) == [cmd |-> cmd, env |-> env, opts |-> opts]

All == {Line("all", dev, {})}

Whole == All \cup {Line("all", dev, {"skip_images"}), Line("all", prod, {}),
                   Line("terraform", dev, {"destroy"})}

Phases == {Line("preflight", None, {}), Line("terraform", dev, {}), Line("terraform", prod, {}),
           Line("kubeconfig", None, {}), Line("images", None, {}), Line("deploy", None, {}),
           Line("reconcile", None, {}), Line("validate", None, {})}

Variants == {Line("terraform", dev, {"plan"}), Line("terraform", prod, {"destroy"}),
             Line("kubeconfig", dev, {}), Line("images", None, {"no_push"}),
             Line("deploy", None, {"skip_wait"}), Line("outputs", None, {}),
             Line("destroy", dev, {})}

Everything == Whole \cup Phases \cup Variants
=============================================================================
