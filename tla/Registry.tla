------------------------------- MODULE Registry -------------------------------
(***************************************************************************)
(* The registries (config/models.py): agents, teams, projects and          *)
(* permission profiles refer to each other by name, ConfigBundle checks    *)
(* the references once, when they are loaded, and select_developer         *)
(* (orchestrator/selection.py) and the workspace manager rely on it.       *)
(*                                                                         *)
(* A registry is a function on the ids that have an entry.  An agent's     *)
(* enabled, role, runtime and working_directory_policy are the one flag    *)
(* `developer`, which says whether they are what select_developer asks     *)
(* for.  A workspace is the sequence of the names of its path.             *)
(***************************************************************************)
EXTENDS Integers, Sequences, FiniteSets

CONSTANTS AgentName, TeamName, ProjectName, ProfileName, Room,
          Permissions,   \* Permissions[f]: the capabilities of a known profile
          Workspace,     \* Workspace[p]: the paths that occur as the project's workspace
          ProjectRoot    \* workspace_root / "projects"

ASSUME PathAssumption ==
    ProjectRoot \in Seq(STRING) /\ \A p \in ProjectName : Workspace[p] \subseteq Seq(STRING)

NoProject == "none"

\* The registries over a set of ids: some of the ids have an entry.
RegistryOf(Ids, Entry) == UNION {[S -> Entry] : S \in SUBSET Ids}

AgentDefinition == [team : TeamName, permission_profile : ProfileName,
                    developer : BOOLEAN]

\* TeamDefinition.validate_team_kind.
validate_team_kind(team) == (team.type = "product") = (team.project # NoProject)

TeamDefinition ==
    {team \in [type : {"platform", "product"}, room : Room,
               agents : SUBSET AgentName \ {{}},
               project : ProjectName \cup {NoProject}] : validate_team_kind(team)}

Paths == UNION {Workspace[p] : p \in ProjectName}

ProjectDefinition == [team : TeamName, workspace : Paths]

ProjectRegistry == {projects \in RegistryOf(ProjectName, ProjectDefinition) :
                      \A p \in DOMAIN projects : projects[p].workspace \in Workspace[p]}

-----------------------------------------------------------------------------
(* ConfigBundle.validate_relationships.                                    *)

\* Mutant of validate_agents: the permission profile is not looked up.
validate_agents_AnyProfile(agents, teams) ==
    \A a \in DOMAIN agents :
      /\ agents[a].team \in DOMAIN teams
      /\ a \in teams[agents[a].team].agents

\* An agent's team exists and lists it, and its profile is known.
validate_agents(agents, teams) ==
    \A a \in DOMAIN agents :
      /\ agents[a].team \in DOMAIN teams
      /\ a \in teams[agents[a].team].agents
      /\ agents[a].permission_profile \in DOMAIN Permissions

\* A team lists agents of its own.
validate_members(agents, teams) ==
    \A t \in DOMAIN teams : \A a \in teams[t].agents :
      a \in DOMAIN agents /\ agents[a].team = t

\* A product team's project names the team.
validate_teams(teams, projects) ==
    \A t \in DOMAIN teams :
      teams[t].type = "product" =>
        /\ teams[t].project \in DOMAIN projects
        /\ projects[teams[t].project].team = t

\* `path` is below `root`, and not `root` itself.
Below(path, root) ==
    Len(path) > Len(root) /\ SubSeq(path, 1, Len(root)) = root

\* Mutant of validate_projects: workspaces may be shared.
validate_projects_Shared(teams, projects) ==
    \A p \in DOMAIN projects :
      /\ projects[p].team \in DOMAIN teams
      /\ teams[projects[p].team].type = "product"
      /\ teams[projects[p].team].project = p
      /\ Below(projects[p].workspace, ProjectRoot)

\* A project belongs to the product team that names it and has a workspace below
\* the root that no other project has.  The paths are compared as they are written:
\* a path stands for a directory, so links between workspaces, and file systems
\* that fold case, are left out (_project_path resolves a path only later).
validate_projects(teams, projects) ==
    /\ \A p \in DOMAIN projects :
         /\ projects[p].team \in DOMAIN teams
         /\ teams[projects[p].team].type = "product"
         /\ teams[projects[p].team].project = p
         /\ Below(projects[p].workspace, ProjectRoot)
    /\ \A p, q \in DOMAIN projects :
         projects[p].workspace = projects[q].workspace => p = q

\* No two teams share a room.
validate_rooms(teams) ==
    \A s, t \in DOMAIN teams : teams[s].room = teams[t].room => s = t

Structure ==
    {s \in [teams : RegistryOf(TeamName, TeamDefinition),
            projects : ProjectRegistry] :
       /\ validate_rooms(s.teams)
       /\ validate_teams(s.teams, s.projects)
       /\ validate_projects(s.teams, s.projects)}

\* The bundles that are accepted; any other stops the hub from starting.
ConfigBundle ==
    {b \in {[teams |-> s.teams, projects |-> s.projects, agents |-> agents] :
              s \in Structure, agents \in RegistryOf(AgentName, AgentDefinition)} :
       /\ validate_members(b.agents, b.teams)
       /\ validate_agents(b.agents, b.teams)}

-----------------------------------------------------------------------------
(* select_developer.                                                       *)

Required   == {"read", "write", "execute", "git"}
Prohibited == {"network", "deploy", "admin"}

Able(agent) ==
    /\ agent.developer
    /\ Required \subseteq Permissions[agent.permission_profile]
    /\ Permissions[agent.permission_profile] \cap Prohibited = {}

\* Nobody is selected: DeveloperSelectionError, or a KeyError of a look-up.
Refused  == "refused"
KeyError == "key-error"

ASSUME AgentNameAssumption == AgentName \cap {Refused, KeyError} = {}

\* The developer for a task of `team` in `project`.
select_developer(b, team, project) ==
    LET listed == b.teams[team].agents
        able   == {a \in listed : Able(b.agents[a])}
    IN IF \/ team \notin DOMAIN b.teams \/ project \notin DOMAIN b.projects
          \/ b.teams[team].type # "product"
          \/ b.projects[project].team # team \/ b.teams[team].project # project
       THEN Refused
       ELSE IF \E a \in listed : \/ a \notin DOMAIN b.agents
                                 \/ b.agents[a].permission_profile \notin DOMAIN Permissions
            THEN KeyError
            ELSE IF Cardinality(able) = 1 THEN CHOOSE a \in able : TRUE ELSE Refused

-----------------------------------------------------------------------------
\* What a selection should be, from the agents' side: the one agent of the
\* registry that says it belongs to the team that owns the project and may do the
\* work.
OwnersDeveloper(b, team, project) ==
    LET able == {a \in DOMAIN b.agents :
                   /\ b.agents[a].team = team
                   /\ b.agents[a].permission_profile \in DOMAIN Permissions
                   /\ Able(b.agents[a])}
    IN IF /\ project \in DOMAIN b.projects /\ b.projects[project].team = team
          /\ Cardinality(able) = 1
       THEN CHOOSE a \in able : TRUE
       ELSE Refused
=============================================================================
