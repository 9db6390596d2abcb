---------------------------- MODULE BootstrapAddons ----------------------------
(***************************************************************************)
(* The steps the addons add to the bootstrap plan, as the records          *)
(* BootstrapHost runs: the steps of the apt addon by the functions that    *)
(* make them, and those of the addons for tools.                           *)
(***************************************************************************)
EXTENDS Sequences

NewStep(name, kind, args) ==
  [name |-> name, kind |-> kind, args |-> args,
   needs |-> {}, after |-> {}, before |-> {}, skip |-> {}]

AptUpdate  == NewStep("apt update", "update", <<>>)
AptInstall == [NewStep("apt install", "install", <<>>) EXCEPT !.after = {"apt update"}]

ExtraUpdate(name, after) ==
  [NewStep(name, "update", <<>>) EXCEPT !.after = {"apt update"} \cup after]
ExtraInstall(name, after) ==
  [NewStep(name, "install", <<>>) EXCEPT !.after = {"apt install"} \cup after]

AddPackages(name, args) ==
  [NewStep(name, "packages", args) EXCEPT !.before = {"apt install"}]
AddExtraPackages(name, args, after, before) ==
  [NewStep(name, "packages", args) EXCEPT !.after = after, !.before = before]
AddPackageIfAvailable(name, arg) ==
  [NewStep(name, "if available", <<arg>>) EXCEPT
     !.before = {"apt install"}, !.after = {"apt update"}]
AddFirstAvailable(name, args) ==
  [NewStep(name, "first available", args) EXCEPT
     !.before = {"apt install"}, !.after = {"apt update"}]

SourceInstall(source) == NewStep(source, "source", <<source>>)
PublicSource(source)  == [SourceInstall(source) EXCEPT !.before = {"apt update"}]

InstallDownloadedPackage(name, arg, after) ==
  [NewStep(name, "deb", <<arg>>) EXCEPT !.after = after]

-----------------------------------------------------------------------------
DockerSteps == <<
  AddPackages("common docker", <<"docker.io", "docker-buildx">>),
  [NewStep("remove docker-ce", "remove", <<"docker-ce", "containerd.io">>) EXCEPT
     !.before = {"apt install"}],
  [AddPackages("credential helpers", <<"docker-helpers">>) EXCEPT !.skip = {"container"}],
  AddPackageIfAvailable("docker-cli", "docker-cli"),
  AddFirstAvailable("docker-compose", <<"docker-compose-v2", "docker-compose">>),
  [NewStep("docker group", "join", <<"docker">>) EXCEPT
     !.after = {"apt install"}, !.needs = {"docker.io"}] >>

\* The login is not asked for when an account is logged in.
GcloudSteps == <<
  PublicSource("google-cloud-sdk"),
  PublicSource("google-cloud-apt"),
  AddPackages("gcloud", <<"google-cloud-cli", "apt-transport-artifact-registry">>),
  [NewStep("Configure gcloud", "make", <<"gcloud login">>) EXCEPT
     !.after = {"apt install"}, !.needs = {"google-cloud-cli"},
     !.skip = {"no logins", "gcloud-login"}] >>

\* It looks for what the login leaves, and for nothing else.
GcloudVerify ==
  [NewStep("Verify gcloud auth", "make", <<>>) EXCEPT
     !.needs = {"gcloud login", "google-cloud-cli"}, !.skip = {"no logins", "gcloud-login"}]

ArtifactRegistry(source, before) ==
  [SourceInstall(source) EXCEPT !.after = {"Verify gcloud auth"}, !.before = before]

\* Shims and completion are one step, of two files like each other.
AsdfSteps == <<
  NewStep("Install asdf", "make", <<"asdf">>),
  [NewStep("asdf plugins", "make", <<"golang plugin", "nodejs plugin">>) EXCEPT
     !.after = {"Install asdf", "apt install"}, !.needs = {"asdf", "git"}],
  [NewStep("asdf tools", "make", <<"golang", "nodejs">>) EXCEPT
     !.after = {"asdf plugins"}, !.needs = {"golang plugin", "nodejs plugin"}],
  [NewStep("asdf defaults", "make", <<"golang default">>) EXCEPT
     !.after = {"asdf tools"}, !.needs = {"golang"}],
  [NewStep("asdf in shell", "edit", <<"completion">>) EXCEPT !.after = {"Install asdf"}],
  AddPackages("asdf completion", <<"bash-completion">>) >>

UvSteps == << NewStep("Install uv", "make", <<"uv">>) >>

TailscaleSteps == <<
  PublicSource("tailscale"),
  AddPackages("tailscale packages", <<"tailscale">>),
  [NewStep("Configure tailscale", "make", <<"tailscale up", "tailscale user">>) EXCEPT
     !.after = {"apt install"}, !.needs = {"tailscale"},
     !.skip = {"container", "no logins"}] >>

GHLogin ==
  [NewStep("gh auth login", "make", <<"gh login">>) EXCEPT
     !.after = {"apt install"}, !.needs = {"gh"}, !.skip = {"no logins"}]

UserInfo ==
  [NewStep("Get user info", "ask", <<"user name", "user email", "github user">>) EXCEPT
     !.after = {"apt install"}, !.skip = {"no logins"}]

\* The steps of the example's main program.
ExampleSteps ==
  << AddPackages("git packages", <<"git", "gh">>),
     NewStep("GOPRIVATE in bashrc", "edit", <<"goprivate">>),
     UserInfo,
     PublicSource("github-cli"),
     GHLogin >>

-----------------------------------------------------------------------------
\* The default steps that others refer to and that the plan has not are added to it.
WithDefaults(steps) ==
  LET refs  == UNION {steps[i].after \cup steps[i].before : i \in DOMAIN steps}
      names == {steps[i].name : i \in DOMAIN steps}
      one(step, wanted) == IF wanted /\ step.name \notin names THEN <<step>> ELSE <<>>
      apt   == refs \cap {"apt update", "apt install"} # {} IN
  steps \o one(AptUpdate, apt) \o one(AptInstall, "apt install" \in refs)
        \o one(GcloudVerify, GcloudVerify.name \in refs)
=============================================================================
