---------------------------- MODULE MCIncidentCase ----------------------------
(* IncidentCase with ten alerts: a failing pull seen from its pod, from its     *)
(* deployment, without the Kubernetes API and on mixed nodes; a crash loop, the *)
(* same called out of memory; a pod nobody can place; labels of several         *)
(* objects, with and without the label "workload"; and an alert on the nodes.   *)
EXTENDS IncidentCase

CONSTANTS c1, c2, app, web, api, db, amd, arm, fits, other, private

MCCauses == {c1, c2}
MCNames == {app, web, api, db}
MCImages == {fits, other, private}
MCArchs == {amd, arm}
MCAlertNames == {"PodDown", "JobFailed", "NodeDown"}

NoLabels == [k \in LabelKeys |-> None]
Alert(name, says, labels) ==
    [name |-> name, says |-> says, labels |-> labels, annotated |-> TRUE]

Event(about, says, image, at) ==
    [namespace |-> IF about = None THEN "kube-system" ELSE app, about |-> about,
     says |-> says, image |-> image, at |-> at]

Container(init, image, says, ended, before, restarted) ==
    [init |-> init, image |-> image, says |-> says, ended |-> ended, endedBefore |-> before,
     restarted |-> restarted]

Pull == {"ImagePullBackOff"}
Manifest(hub, tag, archs) == [dockerHub |-> hub, tagExists |-> tag, archs |-> archs]
MCRegistry(archs) ==
    [i \in MCImages |-> CASE i = fits -> Manifest(TRUE, archs # {}, archs)
                          [] i = other -> Manifest(TRUE, TRUE, {arm})
                          [] i = private -> Manifest(FALSE, FALSE, {})]

\* web pulls two images and its neighbour api crashes; db is a workload.
Base ==
    [inCluster |-> TRUE,
     events |-> {Event(web, Pull, fits, 3), Event(web, {}, None, 2), Event(web, {"ProbeFailure"}, None, 1),
                 Event(api, {"CrashLoopBackOff"}, None, 4)},
     objects |-> {<<"Deployment", db>>, <<"StatefulSet", db>>, <<"Job", db>>, <<"Job", api>>},
     pods |-> [n \in MCNames |->
        CASE n = web -> {Container(FALSE, fits, Pull, "running", "running", FALSE),
                         Container(TRUE, other, {"ConfigError"}, "running", "running", FALSE)}
          [] n = api -> {Container(FALSE, fits, {}, "error", "running", TRUE),
                         Container(FALSE, private, {}, "running", "OOMKilled", TRUE)}
          [] OTHER -> {}],
     nodes |-> {[arch |-> amd, says |-> {}]},
     registry |-> MCRegistry({amd, arm})]

MCCases ==
    <<[alert |-> Alert("PodDown", {}, [NoLabels EXCEPT !["namespace"] = app, !["pod"] = web]),
      cluster |-> Base],
     [alert |-> Alert("PodDown", Pull, [NoLabels EXCEPT !["namespace"] = app, !["deployment"] = db]),
      cluster |-> [Base EXCEPT !.registry = MCRegistry({}), !.nodes = {}]],
     [alert |-> Alert("PodDown", {}, [NoLabels EXCEPT !["namespace"] = app, !["pod"] = api]),
      cluster |-> Base],
     [alert |-> Alert("PodDown", {"OOMKilled"}, [NoLabels EXCEPT !["namespace"] = app, !["pod"] = api]),
      cluster |-> Base],
     [alert |-> Alert("PodDown", Pull, [NoLabels EXCEPT !["namespace"] = app, !["pod"] = web]),
      cluster |-> [Base EXCEPT !.inCluster = FALSE]],
     [alert |-> Alert("PodDown", {"Unschedulable"}, [NoLabels EXCEPT !["namespace"] = app, !["pod"] = db]),
      cluster |-> [Base EXCEPT !.events = {Event(db, {"Unschedulable"}, None, 1),
                                           Event(db, {"Unschedulable"}, None, 2)}]],
     [alert |-> Alert("JobFailed", {"JobFailed"},
                      [NoLabels EXCEPT !["namespace"] = app, !["job"] = db, !["job_name"] = web,
                                       !["pod"] = api]),
      cluster |-> Base],
     [alert |-> Alert("JobFailed", {},
                      [NoLabels EXCEPT !["namespace"] = app, !["workload"] = db, !["statefulset"] = web]),
      cluster |-> [Base EXCEPT !.events = {}]],
     [alert |-> Alert("PodDown", {}, [NoLabels EXCEPT !["namespace"] = app, !["pod"] = web]),
      cluster |-> [Base EXCEPT !.nodes = {[arch |-> amd, says |-> {}], [arch |-> arm, says |-> {}]},
                               !.registry = MCRegistry({arm})]],
     [alert |-> Alert("NodeDown", {}, NoLabels),
      cluster |-> [Base EXCEPT !.nodes = {[arch |-> amd, says |-> {"NodeIssue"}], [arch |-> arm, says |-> {}]},
                               !.events = {Event(None, {"ControlPlaneDown"}, None, 1)}]]>>

MCBooks ==
    <<[alerts |-> {}, category |-> "", keywords |-> {"PodDown", "ImagePullBackOff"}],
      [alerts |-> {}, category |-> "ImagePullBackOff", keywords |-> {}],
      [alerts |-> {"PodDown"}, category |-> "JobFailed", keywords |-> {}]>>
=============================================================================
