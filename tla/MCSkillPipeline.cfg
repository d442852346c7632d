SPECIFICATION Spec
CONSTANTS
  Session = {1, 2}
  Criteria <- MCCriteria
  Roles <- MCRoles
  Bound <- MCBound
  Hideable = "holdout"
  Registry = {"t2"}
  Reserved = {12}
  Installed = {"skill-0"}
  Normal <- MCNormal
  Dimensions <- MCDimensions
  CapturePlans <- MCCapturePlans
  ProposalPlans <- MCProposalPlans
  TrialPlans <- MCTrialPlans
  SuitePlans <- MCSuitePlans
  Answers <- MCAnswers
  Raws <- MCRaws
  Manifests <- MCManifests
  Assessments <- MCAssessments
  Drafts <- MCDrafts
  Validations <- MCValidations
  Reviews <- MCReviews
  ArtifactSets <- MCArtifactSets
  Payloads <- MCPayloads
  Bytes <- MCBytes
  PolicySets <- MCPolicySets
  Replays <- MCReplays
  Events <- MCEvents
  MaxReviews = 4
  MaxEvents = 4
INVARIANTS
  LeftoversNeverVouched
  FailureIsGenuine
  ClosuresOrdered
  ContextGoverned
  EvaluatedIsReviewed
  TrialsJustified
  TurnAttested
PROPERTIES
  ProposalGrounded
CHECK_DEADLOCK FALSE
