---------------------------- MODULE SitePlaybook ----------------------------
(***************************************************************************)
(* ansible/site.yml and ansible/pve-hosts.yml as sequences of tasks for    *)
(* module Ansible: each role's tasks in their order, less those that only  *)
(* prepare the next one (directories, keys, repositories, users).  A file  *)
(* and the daemon that reads it have one name.                             *)
(***************************************************************************)
EXTENDS Sequences, Naturals

LOCAL Do(what, on) == [group |-> "", tags |-> {}, do |-> what, on |-> on, tell |-> {}]
LOCAL Tell(what, on, daemons) == [Do(what, on) EXCEPT !.tell = daemons]
LOCAL Flush == Do("flush", "handlers")

\* A role under tags of its own; a play for a group, whose handlers run last.
Tagged(new, tasks) == [i \in DOMAIN tasks |-> [tasks[i] EXCEPT !.tags = @ \cup new]]
Play(group, labels, tasks) ==
  [i \in DOMAIN tasks \cup {Len(tasks) + 1} |->
     IF i \in DOMAIN tasks
       THEN [tasks[i] EXCEPT !.group = group, !.tags = @ \cup labels]
       ELSE [Flush EXCEPT !.group = group, !.tags = labels]]

\* The inventory groups of a host: base, its roles, and those they require.
GroupsOf(roles) ==
  {"base"} \cup roles \cup (IF "compose" \in roles THEN {"docker"} ELSE {})

-----------------------------------------------------------------------------
(* The roles of a VM.                                                      *)

\* pre_tasks of the base play.
CloudInit == Tagged({"always"}, <<Do("wait", "cloud-init")>>)

SshdConfig ==
  <<Do("install", "sshd"), Tell("write", "sshd", {"sshd"}), Do("validate", "sshd"),
    Do("allow", "ssh"), Do("enable", "ufw")>>

Autoupdates == <<Do("install", "upgrades"), Do("write", "upgrades")>>

Fail2ban ==
  <<Do("install", "fail2ban"), Tell("write", "fail2ban", {"fail2ban"}), Do("start", "fail2ban")>>

Packages == <<Do("install", "packages")>>

Services == <<Do("start", "services")>>

MountNfs == <<Do("install", "nfs")>>

\* Reloading systemd reports no change, so the handler of that name never
\* notifies "Restart Docker": nothing is restarted.
DaemonReloadChanges == FALSE
ReloadSystemdAndRestartDocker == IF DaemonReloadChanges THEN {"docker"} ELSE {}

DockerInstall ==
  <<Do("install", "docker"), Do("start", "docker"),
    Tell("write", "docker", ReloadSystemdAndRestartDocker),
    Tell("write", "rules", {"rules"})>>

Webserver ==
  <<Do("install", "nginx"), Do("allow", "http"), Do("allow", "https"), Do("enable", "ufw")>>

InstallCloudflared == <<Do("install", "cloudflared")>>

NodeExporter ==
  <<Do("install", "node_exporter"), Tell("write", "node_exporter", {"node_exporter"}),
    Do("start", "node_exporter")>>

Kubernetes == <<Do("install", "kubeadm"), Do("once", "kubernetes")>>

Gitlab ==
  <<Do("allow", "http"), Do("allow", "https"), Do("allow", "git"),
    Do("install", "gitlab"), Tell("write", "gitlab", {"gitlab"})>>

FilePush == <<Do("push", "compose"), Do("push", "nginx")>>

WebserverConfig ==
  <<Do("install", "certbot"), Do("issue", "certificate"), Do("need", "nginx"),
    Do("start", "nginx"), Do("validate", "nginx"), Do("reload", "nginx")>>

DockerDeploy == <<Do("need", "compose"), Do("up", "compose")>>

PostDeployRunner == <<Do("script", "post-deploy")>>

-----------------------------------------------------------------------------
BasePlay ==
  Play("base", {"base"},
    CloudInit \o Tagged({"ssh"}, SshdConfig) \o Tagged({"autoupdates"}, Autoupdates)
    \o Tagged({"fail2ban"}, Fail2ban) \o Tagged({"packages"}, Packages)
    \o Tagged({"services"}, Services))

\* The plays that install software, then those that configure it.
Software ==
  Play("nfs", {"nfs"}, MountNfs)
  \o Play("docker", {"docker"}, DockerInstall)
  \o Play("nginx", {"nginx", "webserver"}, Webserver)
  \o Play("cloudflared", {"cloudflared"}, InstallCloudflared)
  \o Play("node_exporter", {"node_exporter", "monitoring"}, NodeExporter)
  \o Play("kubernetes", {"kubernetes"}, Kubernetes)
  \o Play("gitlab", {"gitlab"}, Gitlab)

Sites == Play("nginx", {"nginx", "webserver-config"}, WebserverConfig)
Compose == Play("compose", {"compose"}, DockerDeploy)
PostDeploy == Play("base", {"never", "post_deploy"}, PostDeployRunner)

SiteYml ==
  BasePlay \o Software \o Play("base", {"files"}, FilePush) \o Sites \o Compose \o PostDeploy

-----------------------------------------------------------------------------
(* The Proxmox nodes.                                                      *)

SmartctlExporter ==
  <<Do("install", "smartmontools"), Do("download", "smartctl"),
    Tell("unpack", "smartctl", {"smartctl"}), Tell("write", "smartctl-unit", {"smartctl"}),
    Flush, Do("start", "smartctl")>>

PveHosts ==
  Play("pve_hosts", {"node_exporter", "monitoring"}, NodeExporter)
  \o Play("pve_hosts", {"smartctl_exporter", "monitoring"}, SmartctlExporter)
=============================================================================
