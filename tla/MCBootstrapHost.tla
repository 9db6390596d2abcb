--------------------------- MODULE MCBootstrapHost ---------------------------
(* The machines and plans the runs of BootstrapHost are checked for. *)
EXTENDS BootstrapHost, BootstrapAddons

OffersOf == [ s \in {"google-cloud-sdk", "google-cloud-apt", "private", "tailscale",
                     "github-cli"} |->
  CASE s = "google-cloud-sdk" -> {"google-cloud-cli"}
    [] s = "google-cloud-apt" -> {"apt-transport-artifact-registry"}
    [] s = "private"    -> {"in-house"}
    [] s = "tailscale"  -> {"tailscale"}
    [] s = "github-cli" -> {"gh"} ]
Keys == [s \in DOMAIN OffersOf |->
  IF s \in {"tailscale", "github-cli"} THEN s ELSE "google-cloud"]
Logins == [s \in DOMAIN OffersOf |->
  IF s = "private" THEN {"gcloud login", "apt-transport-artifact-registry"} ELSE {}]

\* Lines: their text, and the space around it.
A == <<"a", "">>   AA == <<"a", " ">>   B == <<"b", "">>   C == <<"c", " ">>
X == <<"x", "">>   Y  == <<"y", "">>
MCLines == {A, AA, B, C, X, Y}

MCEditors == [
  append     |-> Appender(A, {"b", "c"}),
  goprivate  |-> Appender(X, {}),
  completion |-> Splicer(A, <<B>>, C),
  replace    |-> Replacer(A, B, <<C>>, FALSE),
  twoabove   |-> Replacer(A, B, <<C, X>>, FALSE),
  must       |-> Replacer(A, B, <<>>, TRUE),
  rooted     |-> [Splicer(A, <<B>>, C) EXCEPT !.how = "root"],
  inplace    |-> [Appender(A, {"b"}) EXCEPT !.how = "unsafe"] ]

One(e) == << NewStep(e, "edit", <<e>>) >>
Single == {"append", "completion", "replace", "twoabove", "must", "rooted", "inplace"}

MCPlans == [ p \in Single \cup {"docker", "gcloud", "example", "tools", "email"} |->
  CASE p = "docker"  -> WithDefaults(DockerSteps)
    [] p = "gcloud"  -> WithDefaults(GcloudSteps \o <<
         ExtraInstall("extra install", {"extra update"}),
         ExtraUpdate("extra update", {}),
         AddExtraPackages("in-house packages", <<"in-house">>, {"apt install"}, {"extra install"}),
         ArtifactRegistry("private", {"extra update"}) >>)
    [] p = "example" -> WithDefaults(ExampleSteps \o AsdfSteps)
    [] p = "tools"   -> WithDefaults(UvSteps \o TailscaleSteps \o <<
         ExtraUpdate("update again", {"apt install"}),
         InstallDownloadedPackage("Install k9s", "k9s", {"apt install"}) >>)
    [] p = "email"   -> WithDefaults(<<
         UserInfo,
         [NewStep("email again", "ask", <<"user email">>) EXCEPT !.after = {"Get user info"}] >>)
    [] OTHER -> One(p) ]

Basic == {"docker.io", "docker-buildx", "docker-helpers", "docker-compose", "git",
          "bash-completion"}
MCDistros == {Basic, Basic \cup {"docker-cli", "docker-compose-v2"}}

Unset == [p \in Prompts |-> "none"]
Machine(p, e, ps, ks, text, c) ==
  [plan |-> p, env |-> e, packages |-> ps, known |-> ks, distro |-> Basic, file |-> text,
   conf |-> c]

Short == {A, AA, B, C, X}
Texts == UNION {[1 .. n -> Short] : n \in 0 .. 3}
Above == {<<C, X, A>>, <<C, X, C, X, A>>, <<X, C, B, C, X, AA>>, <<C, X, B, A>>, <<C, C, X, A>>}
Whole == {<<>>, <<Y>>, <<A, Y, C, Y>>, <<X, A, C>>}

MCSetups ==
  {Machine(p, {}, {}, {}, t, Unset) : p \in Single, t \in Texts} \cup
  {Machine("twoabove", {}, {}, {}, t, Unset) : t \in Above} \cup
  {Machine("docker", e, ps, ps \cup ks, <<>>, Unset) :
     e \in SUBSET {"container"}, ps \in SUBSET {"docker-ce"}, ks \in {{}, {"containerd.io"}}} \cup
  {Machine("gcloud", e, {}, {}, <<>>, Unset) : e \in {{}, {"no logins"}}} \cup
  {Machine("example", e, {"git"}, {}, t, Unset) : e \in {{}, {"no logins"}}, t \in Whole} \cup
  {Machine("tools", e, {}, {}, <<>>, Unset) : e \in {{}, {"container"}}} \cup
  {Machine("email", {}, {}, {}, <<>>, [Unset EXCEPT !["user email"] = c]) :
     c \in {"none", "good", "bad"}}

\* The plans are such plans, but for the example's, which edits one file twice.
ASSUME PlansKeepToRules ==
  \A pe \in {<<s.plan, s.env>> : s \in MCSetups} :
    /\ Tidy(MCPlans[pe[1]]) /\ Ordered(MCPlans[pe[1]], pe[2]) /\ Supplied(MCPlans[pe[1]], pe[2])
    /\ pe[1] # "example" => OneEdit(MCPlans[pe[1]])
    /\ pe[1] # "twoabove" => PlainEdits(MCPlans[pe[1]])
=============================================================================
